---- MODULE Spec2Model ----
(***************************************************************************)
(* A model of Searchly's provider layer: the configuration records of      *)
(* config.py, the adapters they construct (Kagi, You.com, Exa, SerpAPI,    *)
(* Tavily) and the search operations of those adapters.                    *)
(*                                                                         *)
(* Python values: None is the string "None" (no input set holds a real     *)
(* string of that spelling), a dict is a function from its keys, an object *)
(* is a record of its attributes, and object identity is the index of the  *)
(* object in the heap `adapters`.                                          *)
(***************************************************************************)
EXTENDS Integers, Sequences, FiniteSets, TLC

VARIABLES
    cfg,        \* the configuration record under study (NoConfig: none)
    env,        \* os.environ: variable name -> value, None when unset
    adapters,   \* heap of constructed adapter objects, in construction order
    resolved,   \* history: the credential each adapter resolved when constructed
    requests,   \* log of the HTTP requests handed to the transport
    last,       \* the last completed call: operation, arguments, outcome
    calls       \* the calls that run as concurrent tasks, each with its tasks

vars == <<cfg, env, adapters, resolved, requests, last, calls>>

----------------------------------------------------------------------------
(* Bounds of the model *)

\* at most this many environment variables are set at the same time
MaxEnvSet == 2
\* at most this many adapters are constructed by get_provider() in one behaviour
MaxAdapters == 2
\* at most this many adapters are constructed directly in one behaviour
MaxClients == 1
\* at most this many HTTP requests are issued in one behaviour
MaxRequests == 2
\* a provider response holds at most this many items
MaxItems == 2
\* the largest max_results a caller passes (the smallest is -1)
MaxK == 2
\* the largest token budget passed to get_search_context
MaxTokens == 4
\* at most this many calls run concurrently on an adapter
MaxCalls == 2

----------------------------------------------------------------------------
(* Python helpers *)

None == "None"

\* bool(v) for v: str | None (also SecretStr | None, whose len is its value's)
Truthy(v) == v # None /\ v # ""

\* the Python expression `a or b`
PyOr(a, b) == IF Truthy(a) THEN a ELSE b

Min(a, b) == IF a <= b THEN a ELSE b
Max(a, b) == IF a >= b THEN a ELSE b

\* the Python slice s[:k], k of either sign
SliceTo(s, k) ==
    IF k >= 0 THEN SubSeq(s, 1, Min(k, Len(s)))
              ELSE SubSeq(s, 1, Max(Len(s) + k, 0))

\* all sequences over S of length at most n
SeqUpTo(S, n) == UNION {[1..m -> S] : m \in 0..n}

EmptyDict == [k \in {} |-> None]

\* d.get(key): None when the key is missing
Get(d, key) == IF key \in DOMAIN d THEN d[key] ELSE None

----------------------------------------------------------------------------
(* The environment *)

EnvVars ==
    {"BRAVE_API_KEY", "DATAFORSEO_LOGIN", "DATAFORSEO_PASSWORD", "EXA_API_KEY",
     "JIGSAWSTACK_API_KEY", "KAGI_API_KEY", "LINKUP_API_KEY", "SEARCH1API_KEY",
     "SERPAPI_KEY", "SERPER_API_KEY", "TAVILY_API_KEY", "YOU_API_KEY"}

\* the variables read by the adapters whose code is modelled
ClientEnvVars ==
    {"KAGI_API_KEY", "YOU_API_KEY", "EXA_API_KEY", "SERPAPI_KEY", "TAVILY_API_KEY"}

EnvVals == {None, "", "e1"}

getenv(e, name) == e[name]

EnvUnset == [v \in EnvVars |-> None]

NoCall == [op |-> "none", outcome |-> "none", self |-> 0, args |-> EmptyDict, ret |-> None]

\* The surrounding process sets, empties or unsets one environment variable.
SetEnv(var, val) ==
    /\ env[var] # val
    /\ Cardinality({v \in EnvVars : (IF v = var THEN val ELSE env[v]) # None}) <= MaxEnvSet
    /\ env' = [env EXCEPT ![var] = val]
    /\ last' = [NoCall EXCEPT !.op = "setenv"]
    /\ UNCHANGED <<cfg, adapters, resolved, requests, calls>>

----------------------------------------------------------------------------
(* Adapter constructors.  Each returns [raised, self]: the exception raised *)
(* (None when construction succeeds) and the object constructed.            *)

NoObject == [cls |-> "none"]

Raise(exc) == [raised |-> exc, self |-> NoObject]
Return(obj) == [raised |-> None, self |-> obj]

\* a faulty constructor that leaves the missing key to the first request
AsyncKagiClient_init_unchecked(api_key, base_url, e) ==
    LET key == PyOr(api_key, getenv(e, "KAGI_API_KEY"))
    IN  Return([cls |-> "AsyncKagiClient",
                api_key |-> key,
                base_url |-> base_url,
                headers |-> ("Authorization" :> <<"Bot", key>>)
                            @@ ("Content-Type" :> <<"", "application/json">>)])

\* AsyncKagiClient.__init__(api_key, base_url)
AsyncKagiClient_init(api_key, base_url, e) ==
    LET key == PyOr(api_key, getenv(e, "KAGI_API_KEY"))
    IN  IF ~Truthy(key) THEN Raise("ValueError")
        ELSE Return([cls |-> "AsyncKagiClient",
                     api_key |-> key,
                     base_url |-> base_url,
                     headers |-> ("Authorization" :> <<"Bot", key>>)
                                 @@ ("Content-Type" :> <<"", "application/json">>)])

\* AsyncYouClient.__init__(api_key, base_url)
AsyncYouClient_init(api_key, base_url, e) ==
    LET key == PyOr(api_key, getenv(e, "YOU_API_KEY"))
    IN  IF ~Truthy(key) THEN Raise("ValueError")
        ELSE Return([cls |-> "AsyncYouClient",
                     api_key |-> key,
                     base_url |-> base_url,
                     headers |-> ("X-API-Key" :> <<"", key>>)])

\* AsyncExaClient.__init__(api_key); exa_py is installed
AsyncExaClient_init(api_key, e) ==
    LET key == PyOr(api_key, getenv(e, "EXA_API_KEY"))
    IN  IF ~Truthy(key) THEN Raise("ValueError")
        ELSE Return([cls |-> "AsyncExaClient",
                     api_key |-> key,
                     client |-> [api_key |-> key]])

\* AsyncSerpAPIClient.__init__(api_key); serpapi is installed
AsyncSerpAPIClient_init(api_key, e) ==
    LET key == PyOr(api_key, getenv(e, "SERPAPI_KEY"))
    IN  IF ~Truthy(key) THEN Raise("ValueError")
        ELSE Return([cls |-> "AsyncSerpAPIClient",
                     api_key |-> key,
                     client |-> [api_key |-> key]])

DefaultCompanyInfoTags == <<"news", "general", "finance">>

\* AsyncTavilyClient.__init__(api_key, company_info_tags): the environment is
\* read only when the argument is None, and an empty key then raises
AsyncTavilyClient_init(api_key, company_info_tags, e) ==
    LET key == IF api_key = None THEN getenv(e, "TAVILY_API_KEY") ELSE api_key
    IN  IF ~Truthy(key) THEN Raise("MissingAPIKeyError")
        ELSE Return([cls |-> "AsyncTavilyClient",
                     headers |-> ("Content-Type" :> <<"", "application/json">>)
                                 @@ ("Authorization" :> <<"Bearer", key>>),
                     base_url |-> "https://api.tavily.com",
                     timeout |-> 180,
                     company_info_tags |-> company_info_tags])

\* The adapters whose code is not part of the sources (Brave, JigsawStack,
\* LinkUp, Search1API, Serper): the key is the argument, else the provider's
\* environment variable, and construction fails when neither resolves.
OtherClient_init(cls, envvar, api_key, base_url, e) ==
    LET key == PyOr(api_key, getenv(e, envvar))
    IN  IF ~Truthy(key) THEN Raise("ValueError")
        ELSE Return([cls |-> cls, api_key |-> key, base_url |-> base_url])

\* AsyncDataForSEOClient (not part of the sources): login and password, each
\* from its argument, else DATAFORSEO_LOGIN / DATAFORSEO_PASSWORD
AsyncDataForSEOClient_init(login, password, base_url, e) ==
    LET l == PyOr(login, getenv(e, "DATAFORSEO_LOGIN"))
        p == PyOr(password, getenv(e, "DATAFORSEO_PASSWORD"))
    IN  IF ~Truthy(l) \/ ~Truthy(p) THEN Raise("ValueError")
        ELSE Return([cls |-> "AsyncDataForSEOClient", login |-> l,
                     password |-> p, base_url |-> base_url])

\* the credential an adapter object holds
HeldCredential(obj) ==
    IF "headers" \in DOMAIN obj
    THEN IF "Authorization" \in DOMAIN obj.headers
         THEN obj.headers["Authorization"][2]
         ELSE obj.headers["X-API-Key"][2]
    ELSE IF "api_key" \in DOMAIN obj THEN obj.api_key
    ELSE <<obj.login, obj.password>>

\* the operations each adapter class defines
ClassMethods(cls) ==
    CASE cls = "AsyncKagiClient" -> {"web_search", "news_search", "summarize"}
      [] cls = "AsyncYouClient" -> {"search", "news"}
      [] cls = "AsyncExaClient" -> {"search"}
      [] cls = "AsyncSerpAPIClient" -> {"search"}
      [] cls = "AsyncTavilyClient" ->
            {"search", "extract", "get_search_context", "qna_search", "get_company_info"}


\* the operations of the adapter classes whose code is not part of the sources
OtherClassMethods(cls) ==
    CASE cls \in {"AsyncBraveSearch", "AsyncDataForSEOClient", "AsyncSerperClient"} ->
            {"web_search", "news_search"}
      [] cls \in {"AsyncJigsawStackClient", "AsyncLinkUpClient", "AsyncSearch1API"} ->
            {"web_search"}

SourceClasses ==
    {"AsyncKagiClient", "AsyncYouClient", "AsyncExaClient", "AsyncSerpAPIClient",
     "AsyncTavilyClient"}

\* hasattr(obj, method)
Provides(obj, method) ==
    IF obj.cls \in SourceClasses THEN method \in ClassMethods(obj.cls)
    ELSE method \in OtherClassMethods(obj.cls)

----------------------------------------------------------------------------
(* config.py: the configuration records.  A SecretStr | None field holds    *)
(* None or the secret's value.                                              *)

SecretVals == {None, "", "s1"}

BraveSearchConfig(api_key) ==
    [type |-> "brave", api_key |-> api_key, retries |-> 0, wait_time |-> 2]
DataForSEOConfig(login, password) ==
    [type |-> "dataforseo", login |-> login, password |-> password,
     base_url |-> "https://api.dataforseo.com/v3"]
ExaConfig(api_key) == [type |-> "exa", api_key |-> api_key]
JigsawStackConfig(api_key) ==
    [type |-> "jigsawstack", api_key |-> api_key, base_url |-> "https://api.jigsawstack.com/v1"]
KagiConfig(api_key) ==
    [type |-> "kagi", api_key |-> api_key, base_url |-> "https://kagi.com/api/v0"]
LinkUpConfig(api_key) ==
    [type |-> "linkup", api_key |-> api_key, base_url |-> "https://api.linkup.so/v1"]
Search1Config(api_key) ==
    [type |-> "search1", api_key |-> api_key, base_url |-> "https://api.search1api.com"]
SerpAPIConfig(api_key) == [type |-> "serpapi", api_key |-> api_key]
SerperConfig(api_key) ==
    [type |-> "serper", api_key |-> api_key, base_url |-> "https://google.serper.dev"]
TavilyConfig(api_key) == [type |-> "tavily", api_key |-> api_key]
YouConfig(api_key) ==
    [type |-> "you", api_key |-> api_key, base_url |-> "https://api.ydc-index.io"]

\* the variants of the union WebSearchProviderConfig
WebSearchProviderConfig ==
    {"brave", "dataforseo", "exa", "jigsawstack", "kagi", "linkup", "search1",
     "serpapi", "serper", "tavily", "you"}

\* the variants of the union NewsSearchProviderConfig
NewsSearchProviderConfig ==
    {"brave", "dataforseo", "kagi", "serpapi", "serper", "tavily", "you"}

\* every configuration record, with its tunables at their defaults
Configs ==
    {BraveSearchConfig(k) : k \in SecretVals}
    \cup {DataForSEOConfig(l, p) : l \in SecretVals, p \in SecretVals}
    \cup {ExaConfig(k) : k \in SecretVals}
    \cup {JigsawStackConfig(k) : k \in SecretVals}
    \cup {KagiConfig(k) : k \in SecretVals}
    \cup {LinkUpConfig(k) : k \in SecretVals}
    \cup {Search1Config(k) : k \in SecretVals}
    \cup {SerpAPIConfig(k) : k \in SecretVals}
    \cup {SerperConfig(k) : k \in SecretVals}
    \cup {TavilyConfig(k) : k \in SecretVals}
    \cup {YouConfig(k) : k \in SecretVals}

NoConfig == [type |-> "none"]

(* is_configured(), one definition per class *)

BraveSearchConfig_is_configured(c, e) ==
    c.api_key # None \/ getenv(e, "BRAVE_API_KEY") # None

\* a faulty DataForSEO check that accepts a login without a password
DataForSEOConfig_is_configured_either(c, e) ==
    LET has_login == c.login # None \/ getenv(e, "DATAFORSEO_LOGIN") # None
        has_password == c.password # None \/ getenv(e, "DATAFORSEO_PASSWORD") # None
    IN  has_login \/ has_password

DataForSEOConfig_is_configured(c, e) ==
    LET has_login == c.login # None \/ getenv(e, "DATAFORSEO_LOGIN") # None
        has_password == c.password # None \/ getenv(e, "DATAFORSEO_PASSWORD") # None
    IN  has_login /\ has_password

ExaConfig_is_configured(c, e) ==
    c.api_key # None \/ getenv(e, "EXA_API_KEY") # None

JigsawStackConfig_is_configured(c, e) ==
    c.api_key # None \/ getenv(e, "JIGSAWSTACK_API_KEY") # None

KagiConfig_is_configured(c, e) ==
    c.api_key # None \/ getenv(e, "KAGI_API_KEY") # None

LinkUpConfig_is_configured(c, e) ==
    c.api_key # None \/ getenv(e, "LINKUP_API_KEY") # None

Search1Config_is_configured(c, e) ==
    c.api_key # None \/ getenv(e, "SEARCH1API_KEY") # None

SerpAPIConfig_is_configured(c, e) ==
    c.api_key # None \/ getenv(e, "SERPAPI_KEY") # None

SerperConfig_is_configured(c, e) ==
    c.api_key # None \/ getenv(e, "SERPER_API_KEY") # None

TavilyConfig_is_configured(c, e) ==
    c.api_key # None \/ getenv(e, "TAVILY_API_KEY") # None

YouConfig_is_configured(c, e) ==
    c.api_key # None \/ getenv(e, "YOU_API_KEY") # None

\* c.is_configured(), dispatched on the class of c
is_configured(c, e) ==
    CASE c.type = "brave" -> BraveSearchConfig_is_configured(c, e)
      [] c.type = "dataforseo" -> DataForSEOConfig_is_configured(c, e)
      [] c.type = "exa" -> ExaConfig_is_configured(c, e)
      [] c.type = "jigsawstack" -> JigsawStackConfig_is_configured(c, e)
      [] c.type = "kagi" -> KagiConfig_is_configured(c, e)
      [] c.type = "linkup" -> LinkUpConfig_is_configured(c, e)
      [] c.type = "search1" -> Search1Config_is_configured(c, e)
      [] c.type = "serpapi" -> SerpAPIConfig_is_configured(c, e)
      [] c.type = "serper" -> SerperConfig_is_configured(c, e)
      [] c.type = "tavily" -> TavilyConfig_is_configured(c, e)
      [] c.type = "you" -> YouConfig_is_configured(c, e)

(* get_provider(), one definition per class: the adapter's constructor on   *)
(* `field.get_secret_value() if field else None`                            *)

SecretArg(field) == IF Truthy(field) THEN field ELSE None

BraveSearchConfig_get_provider(c, e) ==
    LET out == OtherClient_init("AsyncBraveSearch", "BRAVE_API_KEY",
                                SecretArg(c.api_key), None, e)
    IN  IF out.raised # None THEN out
        ELSE Return([cls |-> out.self.cls, api_key |-> out.self.api_key,
                     retries |-> c.retries, wait_time |-> c.wait_time])

DataForSEOConfig_get_provider(c, e) ==
    AsyncDataForSEOClient_init(SecretArg(c.login), SecretArg(c.password), c.base_url, e)

ExaConfig_get_provider(c, e) == AsyncExaClient_init(SecretArg(c.api_key), e)

JigsawStackConfig_get_provider(c, e) ==
    OtherClient_init("AsyncJigsawStackClient", "JIGSAWSTACK_API_KEY",
                     SecretArg(c.api_key), c.base_url, e)

KagiConfig_get_provider(c, e) ==
    AsyncKagiClient_init(SecretArg(c.api_key), c.base_url, e)

LinkUpConfig_get_provider(c, e) ==
    OtherClient_init("AsyncLinkUpClient", "LINKUP_API_KEY",
                     SecretArg(c.api_key), c.base_url, e)

Search1Config_get_provider(c, e) ==
    OtherClient_init("AsyncSearch1API", "SEARCH1API_KEY",
                     SecretArg(c.api_key), c.base_url, e)

SerpAPIConfig_get_provider(c, e) == AsyncSerpAPIClient_init(SecretArg(c.api_key), e)

SerperConfig_get_provider(c, e) ==
    OtherClient_init("AsyncSerperClient", "SERPER_API_KEY",
                     SecretArg(c.api_key), c.base_url, e)

TavilyConfig_get_provider(c, e) ==
    AsyncTavilyClient_init(SecretArg(c.api_key), DefaultCompanyInfoTags, e)

YouConfig_get_provider(c, e) ==
    AsyncYouClient_init(SecretArg(c.api_key), c.base_url, e)

\* c.get_provider(), dispatched on the class of c
get_provider(c, e) ==
    CASE c.type = "brave" -> BraveSearchConfig_get_provider(c, e)
      [] c.type = "dataforseo" -> DataForSEOConfig_get_provider(c, e)
      [] c.type = "exa" -> ExaConfig_get_provider(c, e)
      [] c.type = "jigsawstack" -> JigsawStackConfig_get_provider(c, e)
      [] c.type = "kagi" -> KagiConfig_get_provider(c, e)
      [] c.type = "linkup" -> LinkUpConfig_get_provider(c, e)
      [] c.type = "search1" -> Search1Config_get_provider(c, e)
      [] c.type = "serpapi" -> SerpAPIConfig_get_provider(c, e)
      [] c.type = "serper" -> SerperConfig_get_provider(c, e)
      [] c.type = "tavily" -> TavilyConfig_get_provider(c, e)
      [] c.type = "you" -> YouConfig_get_provider(c, e)

----------------------------------------------------------------------------
(* Calls on the configuration record *)

Call(op, self, args, outcome, ret) ==
    [op |-> op, outcome |-> outcome, self |-> self, args |-> args, ret |-> ret]

\* a faulty is_configured() that probes by constructing the adapter
IsConfiguredByConstructing ==
    /\ cfg # NoConfig
    /\ LET out == get_provider(cfg, env)
       IN  /\ last' = Call("is_configured", 0, EmptyDict, "ok", out.raised = None)
           /\ adapters' = IF out.raised = None THEN Append(adapters, out.self) ELSE adapters
    /\ UNCHANGED <<cfg, env, resolved, requests, calls>>

\* cfg.is_configured(): reads the record and the environment, writes nothing
IsConfigured ==
    /\ cfg # NoConfig
    /\ last' = Call("is_configured", 0, EmptyDict, "ok", is_configured(cfg, env))
    /\ UNCHANGED <<cfg, env, adapters, resolved, requests, calls>>

\* a faulty get_provider() that hands out the adapter it constructed before
GetProviderMemoized ==
    /\ cfg # NoConfig
    /\ Len(adapters) < MaxAdapters
    /\ LET out == get_provider(cfg, env)
       IN  IF adapters # <<>>
           THEN /\ last' = Call("get_provider", 0, EmptyDict, "ok", 1)
                /\ UNCHANGED <<adapters, resolved>>
           ELSE IF out.raised = None
           THEN /\ adapters' = Append(adapters, out.self)
                /\ resolved' = Append(resolved, HeldCredential(out.self))
                /\ last' = Call("get_provider", 0, EmptyDict, "ok", Len(adapters) + 1)
           ELSE /\ last' = Call("get_provider", 0, EmptyDict, out.raised, None)
                /\ UNCHANGED <<adapters, resolved>>
    /\ UNCHANGED <<cfg, env, requests, calls>>

\* cfg.get_provider(): a new adapter object on the heap, or the constructor's
\* exception
GetProvider ==
    /\ cfg # NoConfig
    /\ Len(adapters) < MaxAdapters
    /\ LET out == get_provider(cfg, env)
       IN  IF out.raised = None
           THEN /\ adapters' = Append(adapters, out.self)
                /\ resolved' = Append(resolved, HeldCredential(out.self))
                /\ last' = Call("get_provider", 0, EmptyDict, "ok", Len(adapters) + 1)
           ELSE /\ last' = Call("get_provider", 0, EmptyDict, out.raised, None)
                /\ UNCHANGED <<adapters, resolved>>
    /\ UNCHANGED <<cfg, env, requests, calls>>

InitConfig ==
    /\ cfg \in Configs
    /\ env = EnvUnset
    /\ adapters = <<>>
    /\ resolved = <<>>
    /\ requests = <<>>
    /\ last = NoCall
    /\ calls = <<>>

NextConfig ==
    \/ \E var \in EnvVars, val \in EnvVals : SetEnv(var, val)
    \/ IsConfigured
    \/ GetProvider

\* a configuration record, the environment changing under it, and the calls
\* is_configured() and get_provider() on it
SpecConfig == InitConfig /\ [][NextConfig]_vars

----------------------------------------------------------------------------
(* The transport.  A response is [raised, status, body]: the exception the   *)
(* transport raised (None: it returned), the HTTP status and the parsed JSON *)
(* body.  A request is appended to `requests` when it is handed over.        *)

Response(raised, status, body) == [raised |-> raised, status |-> status, body |-> body]

Request(self, method, url, params, headers) ==
    [self |-> self, method |-> method, url |-> url, params |-> params, headers |-> headers]

\* the outcome of a handler: the exception it raised (None: it returned), the
\* value it returned, and the requests it issued, in order
Outcome(raised, ret, sent) == [raised |-> raised, ret |-> ret, sent |-> sent]

\* a handler call completes: its requests join the log, its outcome is recorded
Complete(op, self, args, out) ==
    /\ requests' = requests \o out.sent
    /\ last' = Call(op, self, args, IF out.raised = None THEN "ok" ELSE out.raised, out.ret)
    /\ UNCHANGED <<cfg, env, adapters, resolved, calls>>

----------------------------------------------------------------------------
(* providers/kagi_provider/client.py *)

\* str.lower() on the country codes used
Lower(c) ==
    CASE c = "US" -> "us"
      [] c = "DE" -> "de"
      [] c = "EN" -> "en"
      [] OTHER -> c

\* an item of a provider response: a dict whose missing or null keys read None
TitleVals == {None, "", "t1"}
UrlVals == {None, "", "u1"}
SnippetVals == {None, "s1"}
PublishedVals == {None, "p1"}
KagiItems ==
    [title : TitleVals, url : UrlVals, snippet : SnippetVals, published : PublishedVals]

\* the params dict of web_search (news = FALSE) and news_search (news = TRUE)
KagiParams(query, max_results, country, language, kwargs, news) ==
    LET base == IF news THEN [q |-> query, limit |-> max_results, engine |-> "news"]
                        ELSE [q |-> query, limit |-> max_results]
        p0 == kwargs @@ base
        p1 == IF Truthy(country) THEN ("region" :> Lower(country)) @@ p0 ELSE p0
    IN  IF Truthy(language) THEN ("language" :> language) @@ p1 ELSE p1

\* `if item.get("url")`
HasUrl(item) == Truthy(item.url)

WebSearchResult(item) ==
    [title |-> PyOr(item.title, ""), url |-> PyOr(item.url, ""),
     snippet |-> PyOr(item.snippet, "")]

\* a faulty normalization that writes a missing published as the empty string
NewsSearchResult_defaulting(item) ==
    [title |-> PyOr(item.title, ""), url |-> PyOr(item.url, ""),
     snippet |-> PyOr(item.snippet, ""), published |-> PyOr(item.published, "")]

NewsSearchResult(item) ==
    [title |-> PyOr(item.title, ""), url |-> PyOr(item.url, ""),
     snippet |-> PyOr(item.snippet, ""), published |-> item.published]

\* data.get("data", [])
KagiData(body) == IF "data" \in DOMAIN body THEN body.data ELSE <<>>

\* a faulty web_search that returns every item that has a URL
AsyncKagiClient_web_search_untruncated(self, obj, query, max_results, country, language, kwargs, response) ==
    LET params == KagiParams(query, max_results, country, language, kwargs, FALSE)
        req == Request(self, "GET", <<obj.base_url, "/search">>, params, obj.headers)
        kept == SelectSeq(KagiData(response.body), HasUrl)
        results == [i \in 1..Len(kept) |-> WebSearchResult(kept[i])]
    IN  IF response.raised # None THEN Outcome(response.raised, None, <<req>>)
        ELSE Outcome(None, [results |-> results], <<req>>)

\* AsyncKagiClient.web_search
AsyncKagiClient_web_search(self, obj, query, max_results, country, language, kwargs, response) ==
    LET params == KagiParams(query, max_results, country, language, kwargs, FALSE)
        req == Request(self, "GET", <<obj.base_url, "/search">>, params, obj.headers)
        kept == SelectSeq(KagiData(response.body), HasUrl)
        results == [i \in 1..Len(kept) |-> WebSearchResult(kept[i])]
    IN  IF response.raised # None THEN Outcome(response.raised, None, <<req>>)
        ELSE Outcome(None, [results |-> SliceTo(results, max_results)], <<req>>)

\* a faulty news_search that truncates the provider's items before it drops
\* those without a URL
AsyncKagiClient_news_search_truncating_first(self, obj, query, max_results, country, language, kwargs, response) ==
    LET params == KagiParams(query, max_results, country, language, kwargs, TRUE)
        req == Request(self, "GET", <<obj.base_url, "/search">>, params, obj.headers)
        kept == SelectSeq(SliceTo(KagiData(response.body), max_results), HasUrl)
        results == [i \in 1..Len(kept) |-> NewsSearchResult(kept[i])]
    IN  IF response.raised # None THEN Outcome(response.raised, None, <<req>>)
        ELSE Outcome(None, [results |-> results], <<req>>)

\* AsyncKagiClient.news_search
AsyncKagiClient_news_search(self, obj, query, max_results, country, language, kwargs, response) ==
    LET params == KagiParams(query, max_results, country, language, kwargs, TRUE)
        req == Request(self, "GET", <<obj.base_url, "/search">>, params, obj.headers)
        kept == SelectSeq(KagiData(response.body), HasUrl)
        results == [i \in 1..Len(kept) |-> NewsSearchResult(kept[i])]
    IN  IF response.raised # None THEN Outcome(response.raised, None, <<req>>)
        ELSE Outcome(None, [results |-> SliceTo(results, max_results)], <<req>>)

\* AsyncKagiClient.summarize; a holds the arguments by name
AsyncKagiClient_summarize(self, obj, a, response) ==
    LET p0 == [url |-> a.url, summary_type |-> a.summary_type]
        params == IF Truthy(a.target_language)
                  THEN ("target_language" :> a.target_language) @@ p0 ELSE p0
        req == Request(self, "GET", <<obj.base_url, "/summarize">>, params, obj.headers)
        data == IF "data" \in DOMAIN response.body THEN response.body.data ELSE EmptyDict
    IN  IF response.raised # None THEN Outcome(response.raised, None, <<req>>)
        ELSE Outcome(None, IF "output" \in DOMAIN data THEN data.output ELSE "", <<req>>)

\* the arguments of summarize, summary_type at its default
KagiSummarizeArgs(url, target_language) ==
    [url |-> url, target_language |-> target_language, summary_type |-> "summary"]

SearchArgs(query, max_results, country, language, kwargs, response) ==
    [query |-> query, max_results |-> max_results, country |-> country,
     language |-> language, kwargs |-> kwargs, response |-> response]

KagiWebSearch(self, query, max_results, country, language, kwargs, response) ==
    /\ self \in DOMAIN adapters
    /\ adapters[self].cls = "AsyncKagiClient"
    /\ Len(requests) < MaxRequests
    /\ Complete("web_search", self,
                SearchArgs(query, max_results, country, language, kwargs, response),
                AsyncKagiClient_web_search(self, adapters[self], query, max_results,
                                           country, language, kwargs, response))

KagiNewsSearch(self, query, max_results, country, language, kwargs, response) ==
    /\ self \in DOMAIN adapters
    /\ adapters[self].cls = "AsyncKagiClient"
    /\ Len(requests) < MaxRequests
    /\ Complete("news_search", self,
                SearchArgs(query, max_results, country, language, kwargs, response),
                AsyncKagiClient_news_search(self, adapters[self], query, max_results,
                                            country, language, kwargs, response))

\* the responses a Kagi search can meet: a transport failure, a body without
\* "data", and every list of at most MaxItems items
KagiResponses ==
    {Response("HTTPError", 0, EmptyDict), Response(None, 200, EmptyDict)}
    \cup {Response(None, 200, [data |-> items]) : items \in SeqUpTo(KagiItems, MaxItems)}

MaxResultsVals == -1..MaxK

KagiDefaultBaseUrl == "https://kagi.com/api/v0"

InitKagi ==
    /\ cfg = NoConfig
    /\ env = [EnvUnset EXCEPT !["KAGI_API_KEY"] = "e1"]
    /\ adapters = <<AsyncKagiClient_init(None, KagiDefaultBaseUrl, env).self>>
    /\ resolved = <<"e1">>
    /\ requests = <<>>
    /\ last = NoCall
    /\ calls = <<>>

\* one search call on the adapter, for every max_results and every response
NextKagi ==
    \/ /\ requests = <<>>
       /\ \E k \in MaxResultsVals, response \in KagiResponses :
             KagiWebSearch(1, "q", k, None, None, EmptyDict, response)
    \/ /\ requests = <<>>
       /\ \E k \in MaxResultsVals, response \in KagiResponses :
             KagiNewsSearch(1, "q", k, None, None, EmptyDict, response)

\* a Kagi adapter answering one web_search or news_search call
SpecKagi == InitKagi /\ [][NextKagi]_vars

----------------------------------------------------------------------------
(* Properties of the Kagi searches *)

IsKagiSearch == last.op \in {"web_search", "news_search"} /\ last.outcome = "ok"

\* C1 as stated: for every max_results k, a returned response holds at most k
\* results.
C1_AtMostMaxResults ==
    IsKagiSearch => Len(last.ret.results) <= last.args.max_results

\* C1, amended: for every max_results k >= 0, a returned response holds at
\* most k results, also when the provider returned more than k items.
C1_AtMostMaxResultsNonNegative ==
    (IsKagiSearch /\ last.args.max_results >= 0) =>
        Len(last.ret.results) <= last.args.max_results

\* the provider returned two items with a URL for max_results = 1, and one
\* result came back
C1_Witness ==
    /\ IsKagiSearch
    /\ last.args.max_results = 1
    /\ Len(SelectSeq(KagiData(last.args.response.body), HasUrl)) = 2
    /\ Len(last.ret.results) = 1

\* C2: every result returned by web_search or news_search has a non-empty url
\* and a non-empty title.
C2_ResultsHaveUrlAndTitle ==
    IsKagiSearch =>
        \A i \in DOMAIN last.ret.results :
            Truthy(last.ret.results[i].url) /\ Truthy(last.ret.results[i].title)

----------------------------------------------------------------------------
(* providers/you_provider/you.py *)

\* an item of a You.com response; a missing or null key reads None
YouItem(url, title, description) == [url |-> url, title |-> title, description |-> description]

\* pydantic accepts an item when its required str fields are strings
YouItemValid(item) == item.url # None /\ item.title # None /\ item.description # None

\* SearchResponse(**response): results.web and results.news default to [], and
\* an item without a required field is a pydantic ValidationError
SearchResponse(body) ==
    LET results == IF "results" \in DOMAIN body THEN body.results ELSE EmptyDict
        web == IF "web" \in DOMAIN results THEN results.web ELSE <<>>
        news == IF "news" \in DOMAIN results THEN results.news ELSE <<>>
    IN  IF (\A i \in DOMAIN web : YouItemValid(web[i]))
           /\ (\A j \in DOMAIN news : YouItemValid(news[j]))
        THEN [raised |-> None, value |-> [results |-> [web |-> web, news |-> news]]]
        ELSE [raised |-> "pydantic.ValidationError", value |-> None]

\* the optional query parameters of search: present when truthy
YouOptional(name, value) == IF Truthy(value) THEN (name :> value) ELSE EmptyDict

\* a faulty search that validates offset only after the request was sent
AsyncYouClient_search_late_check(self, obj, a, response) ==
    LET params == YouOptional("livecrawl_formats", a.livecrawl_formats)
                  @@ YouOptional("livecrawl", a.livecrawl)
                  @@ YouOptional("freshness", a.freshness)
                  @@ YouOptional("language", a.language)
                  @@ YouOptional("country", a.country)
                  @@ [query |-> a.query, count |-> a.count, offset |-> a.offset,
                      safesearch |-> a.safesearch]
        req == Request(self, "GET", <<obj.base_url, "/v1/search">>, params, obj.headers)
        parsed == SearchResponse(response.body)
    IN  IF response.raised # None THEN Outcome(response.raised, None, <<req>>)
        ELSE IF ~(0 <= a.offset /\ a.offset <= 9)
        THEN Outcome("ValueError", "offset must be between 0 and 9", <<req>>)
        ELSE Outcome(parsed.raised, parsed.value, <<req>>)

\* AsyncYouClient.search; a holds the arguments by name
AsyncYouClient_search(self, obj, a, response) ==
    LET params == YouOptional("livecrawl_formats", a.livecrawl_formats)
                  @@ YouOptional("livecrawl", a.livecrawl)
                  @@ YouOptional("freshness", a.freshness)
                  @@ YouOptional("language", a.language)
                  @@ YouOptional("country", a.country)
                  @@ [query |-> a.query, count |-> a.count, offset |-> a.offset,
                      safesearch |-> a.safesearch]
        req == Request(self, "GET", <<obj.base_url, "/v1/search">>, params, obj.headers)
        parsed == SearchResponse(response.body)
    IN  IF ~(0 <= a.offset /\ a.offset <= 9)
        THEN Outcome("ValueError", "offset must be between 0 and 9", <<>>)
        ELSE IF response.raised # None THEN Outcome(response.raised, None, <<req>>)
        ELSE Outcome(parsed.raised, parsed.value, <<req>>)

\* LiveNewsResponse(**response): news.results defaults to [], and an item
\* without a required field is a pydantic ValidationError
LiveNewsResponse(body) ==
    LET news == IF "news" \in DOMAIN body THEN body.news ELSE EmptyDict
        results == IF "results" \in DOMAIN news THEN news.results ELSE <<>>
    IN  IF \A i \in DOMAIN results : YouItemValid(results[i])
        THEN [raised |-> None, value |-> [news |-> [results |-> results]]]
        ELSE [raised |-> "pydantic.ValidationError", value |-> None]

\* the request of news: count is sent when it is not None.  The argument
\* count: int | None is <<>> for None and <<n>> for the integer n.
YouNewsRequest(self, obj, a) ==
    Request(self, "GET", <<"https://api.ydc-index.io", "/livenews">>,
            IF a.count # <<>> THEN [q |-> a.query, count |-> a.count[1]]
                              ELSE [q |-> a.query],
            obj.headers)

\* a faulty news that answers a failed request with an empty response
AsyncYouClient_news_swallowing(self, obj, a, response) ==
    LET req == YouNewsRequest(self, obj, a)
        parsed == LiveNewsResponse(response.body)
    IN  IF response.raised # None
        THEN Outcome(None, LiveNewsResponse(EmptyDict).value, <<req>>)
        ELSE Outcome(parsed.raised, parsed.value, <<req>>)

\* AsyncYouClient.news; a holds the arguments by name
AsyncYouClient_news(self, obj, a, response) ==
    LET req == YouNewsRequest(self, obj, a)
        parsed == LiveNewsResponse(response.body)
    IN  IF response.raised # None THEN Outcome(response.raised, None, <<req>>)
        ELSE Outcome(parsed.raised, parsed.value, <<req>>)

YouNewsArgs(query, count) == [query |-> query, count |-> count]

\* the arguments of search, the unnamed ones at their defaults
YouSearchArgs(query, count, offset, country, language, freshness) ==
    [query |-> query, count |-> count, offset |-> offset, country |-> country,
     language |-> language, safesearch |-> "moderate", freshness |-> freshness,
     livecrawl |-> None, livecrawl_formats |-> None]

YouSearch(self, a, response) ==
    /\ self \in DOMAIN adapters
    /\ adapters[self].cls = "AsyncYouClient"
    /\ Len(requests) < MaxRequests
    /\ Complete("search", self, a @@ [response |-> response],
                AsyncYouClient_search(self, adapters[self], a, response))

\* the responses a You.com search can meet
YouResponses ==
    {Response("HTTPError", 0, EmptyDict),
     Response(None, 200, EmptyDict),
     Response(None, 200, [results |-> [web |-> <<YouItem("u1", "t1", "d1")>>,
                                       news |-> <<>>]]),
     Response(None, 200, [results |-> [web |-> <<YouItem(None, "t1", "d1")>>]])}

\* the offsets a caller passes: the accepted range and one value beyond each end
OffsetVals == -1..10

YouDefaultBaseUrl == "https://ydc-index.io"

InitYou ==
    /\ cfg = NoConfig
    /\ env = [EnvUnset EXCEPT !["YOU_API_KEY"] = "e1"]
    /\ adapters = <<AsyncYouClient_init(None, YouDefaultBaseUrl, env).self>>
    /\ resolved = <<"e1">>
    /\ requests = <<>>
    /\ last = NoCall
    /\ calls = <<>>

NextYou ==
    /\ requests = <<>>
    /\ last = NoCall
    /\ \E offset \in OffsetVals, count \in {1, 10}, country \in {None, "US"},
          freshness \in {None, "week"}, response \in YouResponses :
          YouSearch(1, YouSearchArgs("q", count, offset, country, "EN", freshness), response)

\* a You.com adapter answering one search call
SpecYou == InitYou /\ [][NextYou]_vars

\* C10: search raises the validation error and sends nothing for every offset
\* outside 0..9; for every offset in 0..9 it raises no validation error and
\* sends one request, whose offset parameter is the argument.
C10_OffsetValidatedBeforeRequest ==
    last.op = "search" =>
        IF last.args.offset \in 0..9
        THEN /\ last.outcome # "ValueError"
             /\ Len(requests) = 1
             /\ requests[1].params.offset = last.args.offset
        ELSE /\ last.outcome = "ValueError"
             /\ requests = <<>>

\* offset 10 was refused with nothing sent
C10_Witness ==
    /\ last.op = "search"
    /\ last.args.offset = 10
    /\ last.outcome = "ValueError"
    /\ requests = <<>>

----------------------------------------------------------------------------
(* tavily.py *)

\* a JSON value that is a string, where a dict is expected
JsonStr(text) == [json_str |-> text]

\* a response body that is not JSON
Unparseable == [unparseable |-> TRUE]

\* response.json(): [raised, value]
Json(body) ==
    IF "unparseable" \in DOMAIN body
    THEN [raised |-> "JSONDecodeError", value |-> None]
    ELSE [raised |-> None, value |-> body]

\* response.json()["detail"]["error"]: [raised, value], the exception being
\* that of the step that fails
DetailLookup(body) ==
    IF Json(body).raised # None THEN Json(body)
    ELSE IF "json_str" \in DOMAIN body THEN [raised |-> "TypeError", value |-> None]
    ELSE IF "detail" \notin DOMAIN body THEN [raised |-> "KeyError", value |-> None]
    ELSE IF "json_str" \in DOMAIN body.detail THEN [raised |-> "TypeError", value |-> None]
    ELSE IF "error" \notin DOMAIN body.detail THEN [raised |-> "KeyError", value |-> None]
    ELSE [raised |-> None, value |-> body.detail.error]

\* the detail of a 429: the lookup under contextlib.suppress(Exception)
DetailError(body, default) ==
    IF DetailLookup(body).raised = None THEN DetailLookup(body).value ELSE default

\* the request body of _search; a holds the arguments by name
TavilySearchData(a) ==
    a.kwargs @@
    [query |-> a.query, search_depth |-> a.search_depth, topic |-> a.topic,
     days |-> a.days, include_answer |-> a.include_answer,
     include_raw_content |-> a.include_raw_content, max_results |-> a.max_results,
     include_domains |-> a.include_domains, exclude_domains |-> a.exclude_domains,
     include_images |-> a.include_images]

\* response.raise_for_status(): an error for every status that is not 2xx
RaisesForStatus(status) == ~(200 <= status /\ status <= 299)

\* `return response.json()`
ReturnJson(body, sent) ==
    IF Json(body).raised # None THEN Outcome(Json(body).raised, None, sent)
    ELSE Outcome(None, Json(body).value, sent)

\* a faulty _search that sends the request again after a 429
AsyncTavilyClient__search_retrying(self, obj, a, response) ==
    LET req == Request(self, "POST", <<obj.base_url, "/search">>,
                       TavilySearchData(a), obj.headers)
    IN  IF response.raised # None THEN Outcome(response.raised, None, <<req>>)
        ELSE IF response.status = 200 THEN ReturnJson(response.body, <<req>>)
        ELSE IF response.status = 429
        THEN Outcome("UsageLimitExceededError",
                     DetailError(response.body, "Too many requests."), <<req, req>>)
        ELSE IF response.status = 401 THEN Outcome("InvalidAPIKeyError", None, <<req>>)
        ELSE IF RaisesForStatus(response.status)
        THEN Outcome("HTTPStatusError", response.status, <<req>>)
        ELSE ReturnJson(response.body, <<req>>)

\* AsyncTavilyClient._search: one POST, then the status decides
AsyncTavilyClient__search(self, obj, a, response) ==
    LET req == Request(self, "POST", <<obj.base_url, "/search">>,
                       TavilySearchData(a), obj.headers)
    IN  IF response.raised # None THEN Outcome(response.raised, None, <<req>>)
        ELSE IF response.status = 200 THEN ReturnJson(response.body, <<req>>)
        ELSE IF response.status = 429
        THEN Outcome("UsageLimitExceededError",
                     DetailError(response.body, "Too many requests."), <<req>>)
        ELSE IF response.status = 401 THEN Outcome("InvalidAPIKeyError", None, <<req>>)
        ELSE IF RaisesForStatus(response.status)
        THEN Outcome("HTTPStatusError", response.status, <<req>>)
        ELSE ReturnJson(response.body, <<req>>)

\* a faulty search whose request carries the key the environment holds now
AsyncTavilyClient_search_rereads(self, obj, a, response) ==
    LET fresh == [obj EXCEPT !.headers =
                      ("Authorization" :> <<"Bearer", getenv(env, "TAVILY_API_KEY")>>) @@ @]
        out == AsyncTavilyClient__search(self, fresh, a, response)
    IN  IF out.raised # None THEN out
        ELSE Outcome(None, ("results" :> Get(out.ret, "results")) @@ out.ret, out.sent)

\* a faulty search that returns the body as _search returned it
AsyncTavilyClient_search_unnormalised(self, obj, a, response) ==
    AsyncTavilyClient__search(self, obj, a, response)

\* AsyncTavilyClient.search: _search, with "results" defaulted to []
AsyncTavilyClient_search(self, obj, a, response) ==
    LET out == AsyncTavilyClient__search(self, obj, a, response)
        tavily_results == IF "results" \in DOMAIN out.ret THEN out.ret.results ELSE <<>>
    IN  IF out.raised # None THEN out
        ELSE IF "json_str" \in DOMAIN out.ret THEN Outcome("AttributeError", None, out.sent)
        ELSE Outcome(None, ("results" :> tavily_results) @@ out.ret, out.sent)

\* the arguments of search, the unnamed ones at their defaults
TavilySearchArgs(query, topic, max_results, kwargs) ==
    [query |-> query, search_depth |-> "basic", topic |-> topic, days |-> 3,
     max_results |-> max_results, include_domains |-> None, exclude_domains |-> None,
     include_answer |-> FALSE, include_raw_content |-> FALSE, include_images |-> FALSE,
     kwargs |-> kwargs]

TavilySearch(self, a, response) ==
    /\ self \in DOMAIN adapters
    /\ adapters[self].cls = "AsyncTavilyClient"
    /\ Len(requests) < MaxRequests
    /\ Complete("search", self, a @@ [response |-> response],
                AsyncTavilyClient_search(self, adapters[self], a, response))

\* the request body of _extract
TavilyExtractData(a) == a.kwargs @@ [urls |-> a.urls]

\* AsyncTavilyClient._extract: one POST, then the status decides; the lookup of
\* the 400 branch runs under contextlib.suppress(KeyError) only
AsyncTavilyClient__extract(self, obj, a, response) ==
    LET req == Request(self, "POST", <<obj.base_url, "/extract">>,
                       TavilyExtractData(a), obj.headers)
        looked == DetailLookup(response.body)
    IN  IF response.raised # None THEN Outcome(response.raised, None, <<req>>)
        ELSE IF response.status = 200 THEN ReturnJson(response.body, <<req>>)
        ELSE IF response.status = 400
        THEN IF looked.raised = None THEN Outcome("BadRequestError", looked.value, <<req>>)
             ELSE IF looked.raised = "KeyError"
             THEN Outcome("BadRequestError",
                          "Bad request. The request was invalid or cannot be served.",
                          <<req>>)
             ELSE Outcome(looked.raised, None, <<req>>)
        ELSE IF response.status = 401 THEN Outcome("InvalidAPIKeyError", None, <<req>>)
        ELSE IF response.status = 429
        THEN Outcome("UsageLimitExceededError",
                     DetailError(response.body, "Too many requests."), <<req>>)
        ELSE IF RaisesForStatus(response.status)
        THEN Outcome("HTTPStatusError", response.status, <<req>>)
        ELSE ReturnJson(response.body, <<req>>)

\* AsyncTavilyClient.extract: _extract, with "results" and "failed_results"
\* defaulted to []
AsyncTavilyClient_extract(self, obj, a, response) ==
    LET out == AsyncTavilyClient__extract(self, obj, a, response)
        tavily_results == IF "results" \in DOMAIN out.ret THEN out.ret.results ELSE <<>>
        failed_results == IF "failed_results" \in DOMAIN out.ret
                          THEN out.ret.failed_results ELSE <<>>
    IN  IF out.raised # None THEN out
        ELSE IF "json_str" \in DOMAIN out.ret THEN Outcome("AttributeError", None, out.sent)
        ELSE Outcome(None, ("results" :> tavily_results)
                           @@ ("failed_results" :> failed_results) @@ out.ret, out.sent)

TavilyExtractArgs(urls, kwargs) == [urls |-> urls, kwargs |-> kwargs]

TavilyExtract(self, a, response) ==
    /\ self \in DOMAIN adapters
    /\ adapters[self].cls = "AsyncTavilyClient"
    /\ Len(requests) < MaxRequests
    /\ Complete("extract", self, a @@ [response |-> response],
                AsyncTavilyClient_extract(self, adapters[self], a, response))

\* json.dumps(value): the string that encodes the value
json_dumps(value) == [json_dumps |-> value]

\* tokonomics.count_tokens on the serialized item: the counter is injected,
\* here one that charges an item by its content
get_total_tokens_from_string(string) ==
    LET content == string.json_dumps.content
    IN  CASE content = "c1" -> 1
          [] content = "c2" -> 2
          [] OTHER -> 3

\* the loop of get_max_items_from_list from item i on
RECURSIVE MaxItemsLoop(_, _, _, _, _)
MaxItemsLoop(data, i, current_tokens, result, max_tokens) ==
    IF i > Len(data) THEN result
    ELSE LET new_total_tokens ==
                 current_tokens + get_total_tokens_from_string(json_dumps(data[i]))
         IN  IF new_total_tokens > max_tokens THEN result
             ELSE MaxItemsLoop(data, i + 1, new_total_tokens,
                               Append(result, data[i]), max_tokens)

\* a faulty loop that appends the item before it compares
RECURSIVE MaxItemsLoopLate(_, _, _, _, _)
MaxItemsLoopLate(data, i, current_tokens, result, max_tokens) ==
    IF i > Len(data) THEN result
    ELSE LET new_total_tokens ==
                 current_tokens + get_total_tokens_from_string(json_dumps(data[i]))
         IN  IF new_total_tokens > max_tokens THEN Append(result, data[i])
             ELSE MaxItemsLoopLate(data, i + 1, new_total_tokens,
                                   Append(result, data[i]), max_tokens)

\* a faulty loop that skips the item that does not fit and goes on
RECURSIVE MaxItemsLoopSkipping(_, _, _, _, _)
MaxItemsLoopSkipping(data, i, current_tokens, result, max_tokens) ==
    IF i > Len(data) THEN result
    ELSE LET new_total_tokens ==
                 current_tokens + get_total_tokens_from_string(json_dumps(data[i]))
         IN  IF new_total_tokens > max_tokens
             THEN MaxItemsLoopSkipping(data, i + 1, current_tokens, result, max_tokens)
             ELSE MaxItemsLoopSkipping(data, i + 1, new_total_tokens,
                                       Append(result, data[i]), max_tokens)

\* a faulty loop that stops at the item that reaches the budget
RECURSIVE MaxItemsLoopStrict(_, _, _, _, _)
MaxItemsLoopStrict(data, i, current_tokens, result, max_tokens) ==
    IF i > Len(data) THEN result
    ELSE LET new_total_tokens ==
                 current_tokens + get_total_tokens_from_string(json_dumps(data[i]))
         IN  IF new_total_tokens >= max_tokens THEN result
             ELSE MaxItemsLoopStrict(data, i + 1, new_total_tokens,
                                     Append(result, data[i]), max_tokens)

get_max_items_from_list_strict(data, max_tokens) ==
    MaxItemsLoopStrict(data, 1, 0, <<>>, max_tokens)

get_max_items_from_list_late(data, max_tokens) ==
    MaxItemsLoopLate(data, 1, 0, <<>>, max_tokens)

get_max_items_from_list_skipping(data, max_tokens) ==
    MaxItemsLoopSkipping(data, 1, 0, <<>>, max_tokens)

\* get_max_items_from_list(data, max_tokens)
get_max_items_from_list(data, max_tokens) == MaxItemsLoop(data, 1, 0, <<>>, max_tokens)

\* the arguments _search receives from a caller that fixes the include flags
TavilyInnerArgs(a, include_answer) ==
    [query |-> a.query, search_depth |-> a.search_depth, topic |-> a.topic,
     days |-> a.days, max_results |-> a.max_results,
     include_domains |-> a.include_domains, exclude_domains |-> a.exclude_domains,
     include_answer |-> include_answer, include_raw_content |-> FALSE,
     include_images |-> FALSE, kwargs |-> a.kwargs]

\* AsyncTavilyClient.get_search_context: the {url, content} of every source,
\* cut to the token budget and serialized
AsyncTavilyClient_get_search_context(self, obj, a, response) ==
    LET out == AsyncTavilyClient__search(self, obj, TavilyInnerArgs(a, FALSE), response)
        sources == IF "results" \in DOMAIN out.ret THEN out.ret.results ELSE <<>>
        context == [i \in 1..Len(sources) |->
                        [url |-> sources[i].url, content |-> sources[i].content]]
    IN  IF out.raised # None THEN out
        ELSE IF "json_str" \in DOMAIN out.ret THEN Outcome("AttributeError", None, out.sent)
        ELSE IF \E i \in 1..Len(sources) : ~({"url", "content"} \subseteq DOMAIN sources[i])
        THEN Outcome("KeyError", None, out.sent)
        ELSE Outcome(None, json_dumps(get_max_items_from_list(context, a.max_tokens)),
                     out.sent)

\* the arguments of get_search_context, the unnamed ones at their defaults
TavilyContextArgs(query, max_results, max_tokens, kwargs) ==
    [query |-> query, search_depth |-> "basic", topic |-> "general", days |-> 3,
     max_results |-> max_results, include_domains |-> None, exclude_domains |-> None,
     max_tokens |-> max_tokens, kwargs |-> kwargs]

TavilyGetSearchContext(self, a, response) ==
    /\ self \in DOMAIN adapters
    /\ adapters[self].cls = "AsyncTavilyClient"
    /\ Len(requests) < MaxRequests
    /\ Complete("get_search_context", self, a @@ [response |-> response],
                AsyncTavilyClient_get_search_context(self, adapters[self], a, response))

\* AsyncTavilyClient.qna_search: the answer of the body, "" when it has none
AsyncTavilyClient_qna_search(self, obj, a, response) ==
    LET out == AsyncTavilyClient__search(self, obj, TavilyInnerArgs(a, TRUE), response)
    IN  IF out.raised # None THEN out
        ELSE IF "json_str" \in DOMAIN out.ret THEN Outcome("AttributeError", None, out.sent)
        ELSE Outcome(None, IF "answer" \in DOMAIN out.ret THEN out.ret.answer ELSE "",
                     out.sent)

\* the arguments of qna_search, the unnamed ones at their defaults
TavilyQnaArgs(query, max_results, kwargs) ==
    [query |-> query, search_depth |-> "advanced", topic |-> "general", days |-> 3,
     max_results |-> max_results, include_domains |-> None, exclude_domains |-> None,
     kwargs |-> kwargs]

TavilyQnaSearch(self, a, response) ==
    /\ self \in DOMAIN adapters
    /\ adapters[self].cls = "AsyncTavilyClient"
    /\ Len(requests) < MaxRequests
    /\ Complete("qna_search", self, a @@ [response |-> response],
                AsyncTavilyClient_qna_search(self, adapters[self], a, response))

----------------------------------------------------------------------------
(* Constructing adapters directly *)

\* the constructor returned: the object joins the heap; or it raised
Constructed(cls, api_key, out) ==
    /\ IF out.raised = None
       THEN /\ adapters' = Append(adapters, out.self)
            /\ resolved' = Append(resolved, HeldCredential(out.self))
            /\ last' = Call("__init__", Len(adapters) + 1,
                            [cls |-> cls, api_key |-> api_key], "ok", Len(adapters) + 1)
       ELSE /\ last' = Call("__init__", 0, [cls |-> cls, api_key |-> api_key],
                            out.raised, None)
            /\ UNCHANGED <<adapters, resolved>>
    /\ UNCHANGED <<cfg, env, requests, calls>>

\* adapters of one class are studied at a time
OnlyClass(cls) == \A i \in DOMAIN adapters : adapters[i].cls = cls

ConstructKagi(api_key, base_url) ==
    /\ Len(adapters) < MaxClients
    /\ OnlyClass("AsyncKagiClient")
    /\ Constructed("AsyncKagiClient", api_key, AsyncKagiClient_init(api_key, base_url, env))

ConstructYou(api_key, base_url) ==
    /\ Len(adapters) < MaxClients
    /\ OnlyClass("AsyncYouClient")
    /\ Constructed("AsyncYouClient", api_key, AsyncYouClient_init(api_key, base_url, env))

ConstructExa(api_key) ==
    /\ Len(adapters) < MaxClients
    /\ OnlyClass("AsyncExaClient")
    /\ Constructed("AsyncExaClient", api_key, AsyncExaClient_init(api_key, env))

ConstructSerpAPI(api_key) ==
    /\ Len(adapters) < MaxClients
    /\ OnlyClass("AsyncSerpAPIClient")
    /\ Constructed("AsyncSerpAPIClient", api_key, AsyncSerpAPIClient_init(api_key, env))

ConstructTavily(api_key) ==
    /\ Len(adapters) < MaxClients
    /\ OnlyClass("AsyncTavilyClient")
    /\ Constructed("AsyncTavilyClient", api_key,
                   AsyncTavilyClient_init(api_key, DefaultCompanyInfoTags, env))

\* the api_key argument of a constructor: omitted, empty or a key
KeyArgs == {None, "", "k1"}

\* the responses the searches of this specification meet
ClientKagiResponses ==
    {Response("HTTPError", 0, EmptyDict),
     Response(None, 200, [data |-> <<[title |-> "t1", url |-> "u1", snippet |-> "s1",
                                     published |-> "p1"]>>])}

ClientYouResponses ==
    {Response("HTTPError", 0, EmptyDict),
     Response(None, 200, [results |-> [web |-> <<YouItem("u1", "t1", "d1")>>,
                                       news |-> <<>>]])}

ClientTavilyResponses ==
    {Response("ConnectError", 0, EmptyDict),
     Response(None, 200, [results |-> <<[url |-> "u1", content |-> "c1", score |-> 1]>>]),
     Response(None, 401, EmptyDict),
     Response(None, 429, [detail |-> [error |-> "quota"]])}

Init ==
    /\ cfg = NoConfig
    /\ env = EnvUnset
    /\ adapters = <<>>
    /\ resolved = <<>>
    /\ requests = <<>>
    /\ last = NoCall
    /\ calls = <<>>

Next ==
    \/ \E var \in ClientEnvVars, val \in EnvVals : SetEnv(var, val)
    \/ \E k \in KeyArgs, b \in {KagiDefaultBaseUrl, "https://proxy.example"} :
          ConstructKagi(k, b)
    \/ \E k \in KeyArgs : ConstructYou(k, YouDefaultBaseUrl)
    \/ \E k \in KeyArgs : ConstructExa(k)
    \/ \E k \in KeyArgs : ConstructSerpAPI(k)
    \/ \E k \in KeyArgs : ConstructTavily(k)
    \/ \E self \in DOMAIN adapters, response \in ClientKagiResponses :
          KagiWebSearch(self, "q", 1, None, None, EmptyDict, response)
    \/ \E self \in DOMAIN adapters, response \in ClientKagiResponses :
          KagiNewsSearch(self, "q", 1, None, None, EmptyDict, response)
    \/ \E self \in DOMAIN adapters, response \in ClientYouResponses :
          YouSearch(self, YouSearchArgs("q", 10, 0, None, None, None), response)
    \/ \E self \in DOMAIN adapters, response \in ClientTavilyResponses :
          TavilySearch(self, TavilySearchArgs("q", "general", 5, EmptyDict), response)

\* adapters constructed directly, the environment changing under them, and
\* their searches
Spec == Init /\ [][Next]_vars

----------------------------------------------------------------------------
(* Properties of adapter construction and credentials *)

\* the credential a request carries in its headers
RequestCredential(headers) ==
    IF "Authorization" \in DOMAIN headers THEN headers["Authorization"][2]
    ELSE headers["X-API-Key"][2]

\* the environment variable documented for each adapter class
ClassEnvVar(cls) ==
    CASE cls = "AsyncKagiClient" -> "KAGI_API_KEY"
      [] cls = "AsyncYouClient" -> "YOU_API_KEY"
      [] cls = "AsyncExaClient" -> "EXA_API_KEY"
      [] cls = "AsyncSerpAPIClient" -> "SERPAPI_KEY"
      [] cls = "AsyncTavilyClient" -> "TAVILY_API_KEY"

\* the exceptions that report missing credentials
MissingCredentialsErrors == {"ValueError", "MissingAPIKeyError"}

\* C7: whatever the environment has become, every request carries the
\* credential its adapter resolved when it was constructed.
C7_RequestsCarryConstructionCredential ==
    \A i \in DOMAIN requests :
        RequestCredential(requests[i].headers) = resolved[requests[i].self]

\* a Tavily adapter took its key from the environment, the variable was then
\* unset, and two requests still carried that key
C7_Witness ==
    /\ Len(requests) = 2
    /\ adapters[1].cls = "AsyncTavilyClient"
    /\ resolved[1] = "e1"
    /\ env["TAVILY_API_KEY"] = None
    /\ last.op = "search"
    /\ RequestCredential(requests[2].headers) = "e1"

\* C8: when neither the argument nor the environment variable supplies a
\* credential, the constructor raises the missing-credentials error, no
\* adapter joins the heap and nothing is sent; no adapter ever holds, and no
\* request ever carries, an empty credential.
C8_MissingCredentialsFailConstruction ==
    [][/\ (/\ last'.op = "__init__"
           /\ ~Truthy(last'.args.api_key)
           /\ ~Truthy(env[ClassEnvVar(last'.args.cls)]))
          => (/\ last'.outcome \in MissingCredentialsErrors
              /\ adapters' = adapters
              /\ requests' = requests)
       /\ \A i \in DOMAIN adapters' : Truthy(HeldCredential(adapters'[i]))
       /\ \A i \in DOMAIN requests' : Truthy(RequestCredential(requests'[i].headers))]_vars

\* a Tavily constructor met no argument and an empty variable, and raised
C8_Witness ==
    /\ last.op = "__init__"
    /\ last.args.cls = "AsyncTavilyClient"
    /\ last.args.api_key = None
    /\ env["TAVILY_API_KEY"] = ""
    /\ last.outcome = "MissingAPIKeyError"
    /\ adapters = <<>>
    /\ requests = <<>>

\* C9: every constructor holds the explicit argument when it supplies a
\* non-empty value, otherwise the value of the environment variable, and
\* raises only when neither supplies a non-empty value.
C9_UniformCredentialResolution ==
    last.op = "__init__" =>
        LET explicit == last.args.api_key
            fallback == env[ClassEnvVar(last.args.cls)]
            expected == IF Truthy(explicit) THEN explicit ELSE fallback
        IN  IF Truthy(expected)
            THEN /\ last.outcome = "ok"
                 /\ HeldCredential(adapters[last.ret]) = expected
            ELSE last.outcome \in MissingCredentialsErrors

----------------------------------------------------------------------------
(* Properties of the configuration records *)

\* C3: every adapter constructed by a variant of WebSearchProviderConfig (all
\* eleven types) provides web_search, every adapter constructed by a variant
\* of NewsSearchProviderConfig provides news_search, and exa, jigsawstack,
\* linkup and search1 are no news configurations.
C3_ConfigAdaptersProvideSearch ==
    /\ Cardinality(WebSearchProviderConfig) = 11
    /\ NewsSearchProviderConfig =
          {"brave", "dataforseo", "kagi", "serpapi", "serper", "tavily", "you"}
    /\ \A i \in DOMAIN adapters :
          /\ cfg.type \in WebSearchProviderConfig => Provides(adapters[i], "web_search")
          /\ cfg.type \in NewsSearchProviderConfig => Provides(adapters[i], "news_search")

\* the credentials each provider requires: <<field, documented variable>>
RequiredCredentials(type) ==
    CASE type = "brave" -> {<<"api_key", "BRAVE_API_KEY">>}
      [] type = "dataforseo" ->
            {<<"login", "DATAFORSEO_LOGIN">>, <<"password", "DATAFORSEO_PASSWORD">>}
      [] type = "exa" -> {<<"api_key", "EXA_API_KEY">>}
      [] type = "jigsawstack" -> {<<"api_key", "JIGSAWSTACK_API_KEY">>}
      [] type = "kagi" -> {<<"api_key", "KAGI_API_KEY">>}
      [] type = "linkup" -> {<<"api_key", "LINKUP_API_KEY">>}
      [] type = "search1" -> {<<"api_key", "SEARCH1API_KEY">>}
      [] type = "serpapi" -> {<<"api_key", "SERPAPI_KEY">>}
      [] type = "serper" -> {<<"api_key", "SERPER_API_KEY">>}
      [] type = "tavily" -> {<<"api_key", "TAVILY_API_KEY">>}
      [] type = "you" -> {<<"api_key", "YOU_API_KEY">>}

\* C4: is_configured() returns true exactly when every credential the provider
\* requires is set in the explicit field or in its documented environment
\* variable (DataForSEO: login and password, each from either source).
C4_IsConfiguredIffCredentialsSet ==
    last.op = "is_configured" =>
        (last.ret <=> \A s \in RequiredCredentials(cfg.type) :
                          cfg[s[1]] # None \/ env[s[2]] # None)

\* DataForSEO answered true with the login from the environment and the
\* password from the record
C4_Witness ==
    /\ last.op = "is_configured"
    /\ cfg.type = "dataforseo"
    /\ cfg.login = None /\ env["DATAFORSEO_LOGIN"] = "e1"
    /\ cfg.password = "s1" /\ env["DATAFORSEO_PASSWORD"] = None
    /\ last.ret = TRUE

\* C5: a step that is an is_configured() call leaves the record and the
\* environment as they were, constructs no adapter and issues no request.
C5_IsConfiguredNoSideEffects ==
    [][last'.op = "is_configured" =>
          /\ cfg' = cfg
          /\ env' = env
          /\ adapters' = adapters
          /\ requests' = requests]_vars

\* is_configured() answered true from the environment alone, and nothing was
\* constructed or sent
C5_Witness ==
    /\ last.op = "is_configured"
    /\ last.ret = TRUE
    /\ cfg.type = "kagi" /\ cfg.api_key = None /\ env["KAGI_API_KEY"] = "e1"
    /\ adapters = <<>>
    /\ requests = <<>>

\* C6: a successful get_provider() returns an adapter object that did not
\* exist before the call, keeps the earlier objects, leaves the record
\* unchanged and issues no request.
C6_GetProviderConstructsFresh ==
    [][(last'.op = "get_provider" /\ last'.outcome = "ok") =>
          /\ last'.ret \notin DOMAIN adapters
          /\ last'.ret \in DOMAIN adapters'
          /\ \A i \in DOMAIN adapters : adapters'[i] = adapters[i]
          /\ cfg' = cfg
          /\ requests' = requests]_vars

\* the second get_provider() on one record returned a second object
C6_Witness ==
    /\ last.op = "get_provider"
    /\ last.outcome = "ok"
    /\ last.ret = 2
    /\ Len(adapters) = 2
    /\ requests = <<>>

----------------------------------------------------------------------------
(* One call on a Tavily adapter *)

\* the bodies a Tavily response can carry
TavilyBodies ==
    {EmptyDict, Unparseable, JsonStr("oops"),
     [results |-> <<[url |-> "u1", content |-> "c1", score |-> 1]>>],
     [answer |-> "a1"],
     [results |-> <<>>, answer |-> "a1"],
     [detail |-> [error |-> "quota"]],
     [detail |-> EmptyDict],
     [detail |-> JsonStr("d")]}

TavilyStatuses == {200, 204, 302, 400, 401, 429, 500}

\* a transport failure, and every status with every body
TavilyResponses ==
    {Response("ConnectError", 0, EmptyDict)}
    \cup {Response(None, st, body) : st \in TavilyStatuses, body \in TavilyBodies}

\* the sources of a search response; the last one has no content
ContextSources ==
    {[url |-> "u1", content |-> "c1", score |-> 1],
     [url |-> "u2", content |-> "c2", score |-> 2],
     [url |-> "u3", content |-> "c3", score |-> 3],
     [url |-> "u4", score |-> 1]}

ContextResponses ==
    TavilyResponses
    \cup {Response(None, 200, [results |-> srcs]) : srcs \in SeqUpTo(ContextSources, MaxItems)}

\* the budgets a caller passes
MaxTokensVals == -1..MaxTokens

InitTavily ==
    /\ cfg = NoConfig
    /\ env = [EnvUnset EXCEPT !["TAVILY_API_KEY"] = "e1"]
    /\ adapters = <<AsyncTavilyClient_init(None, DefaultCompanyInfoTags, env).self>>
    /\ resolved = <<"e1">>
    /\ requests = <<>>
    /\ last = NoCall
    /\ calls = <<>>

NextTavily ==
    \/ /\ last = NoCall
       /\ \E topic \in {"general", "news"}, kwargs \in {EmptyDict, [days |-> 7]},
             response \in TavilyResponses :
             TavilySearch(1, TavilySearchArgs("q", topic, 5, kwargs), response)
    \/ /\ last = NoCall
       /\ \E urls \in {<<"u1">>, <<"u1", "u2">>}, response \in TavilyResponses :
             TavilyExtract(1, TavilyExtractArgs(urls, EmptyDict), response)
    \/ /\ last = NoCall
       /\ \E max_tokens \in MaxTokensVals, response \in ContextResponses :
             TavilyGetSearchContext(1, TavilyContextArgs("q", 5, max_tokens, EmptyDict),
                                    response)
    \/ /\ last = NoCall
       /\ \E response \in TavilyResponses :
             TavilyQnaSearch(1, TavilyQnaArgs("q", 5, EmptyDict), response)

\* a Tavily adapter answering one search, extract, get_search_context or
\* qna_search call
SpecTavily == InitTavily /\ [][NextTavily]_vars

----------------------------------------------------------------------------
(* Properties of the Tavily calls *)

\* the body is a JSON object
IsJsonObject(body) == DOMAIN body \cap {"unparseable", "json_str"} = {}

\* the operations that go through _search
ViaSearch == {"search", "get_search_context", "qna_search"}

\* C11: _search maps 429 to UsageLimitExceededError and 401 to
\* InvalidAPIKeyError whatever the body, and on a 200 whose body parses to an
\* object search() returns that body with every key and value kept and the
\* key "results" present, [] when the body has none.
C11_SearchClassifiesStatus ==
    (last.op \in ViaSearch /\ last.args.response.raised = None) =>
        LET r == last.args.response
        IN  /\ r.status = 429 => last.outcome = "UsageLimitExceededError"
            /\ r.status = 401 => last.outcome = "InvalidAPIKeyError"
            /\ (last.op = "search" /\ r.status = 200 /\ IsJsonObject(r.body)) =>
                  /\ last.outcome = "ok"
                  /\ DOMAIN last.ret = DOMAIN r.body \cup {"results"}
                  /\ \A key \in DOMAIN r.body : last.ret[key] = r.body[key]
                  /\ "results" \notin DOMAIN r.body => last.ret.results = <<>>

\* search() met a 200 whose body has an answer and no results
C11_Witness ==
    /\ last.op = "search"
    /\ last.args.response.raised = None
    /\ last.args.response.status = 200
    /\ last.args.response.body = [answer |-> "a1"]
    /\ last.outcome = "ok"
    /\ last.ret = [answer |-> "a1", results |-> <<>>]

\* the message an error takes from the body: detail.error when the body has
\* it, the generic message otherwise
ExpectedMessage(body, generic) ==
    IF IsJsonObject(body) /\ "detail" \in DOMAIN body
       /\ IsJsonObject(body.detail) /\ "error" \in DOMAIN body.detail
    THEN body.detail.error
    ELSE generic

\* C12: for every body, a 429 raises UsageLimitExceededError and a 400 on
\* extract raises BadRequestError, the message being detail.error when the
\* body has it and the generic message otherwise.
C12_ErrorKindByStatusOnly ==
    (last.op \in ViaSearch \cup {"extract"} /\ last.args.response.raised = None) =>
        LET r == last.args.response
        IN  /\ r.status = 429 =>
                  /\ last.outcome = "UsageLimitExceededError"
                  /\ last.ret = ExpectedMessage(r.body, "Too many requests.")
            /\ (last.op = "extract" /\ r.status = 400) =>
                  /\ last.outcome = "BadRequestError"
                  /\ last.ret = ExpectedMessage(r.body,
                         "Bad request. The request was invalid or cannot be served.")

\* the tokens of a list of items, item by item
RECURSIVE SumTokens(_)
SumTokens(items) ==
    IF items = <<>> THEN 0
    ELSE get_total_tokens_from_string(json_dumps(Head(items))) + SumTokens(Tail(items))

\* get_search_context returned a list
ContextReturned == last.op = "get_search_context" /\ last.outcome = "ok"

\* C14 as stated: for every budget, the returned list costs at most the budget.
C14_ContextWithinBudget ==
    ContextReturned => SumTokens(last.ret.json_dumps) <= last.args.max_tokens

\* C14, amended: for every budget N >= 0, the returned list costs at most N.
C14_ContextWithinNonNegativeBudget ==
    (ContextReturned /\ last.args.max_tokens >= 0) =>
        SumTokens(last.ret.json_dumps) <= last.args.max_tokens

\* the candidates cost more than the budget and a non-empty list came back
C14_Witness ==
    /\ ContextReturned
    /\ last.args.max_tokens >= 0
    /\ last.ret.json_dumps # <<>>
    /\ SumTokens(last.args.response.body.results) > last.args.max_tokens

\* the {url, content} candidates of the response a call met
Candidates(response) ==
    [i \in 1..Len(response.body.results) |->
        [url |-> response.body.results[i].url,
         content |-> response.body.results[i].content]]

\* C15: the returned list is the longest prefix of the candidates, in the
\* order received, every running token sum of which is within max_tokens.
C15_ContextIsGreedyPrefix ==
    (ContextReturned /\ "results" \in DOMAIN last.args.response.body) =>
        LET cand == Candidates(last.args.response)
            got == last.ret.json_dumps
            n == Len(got)
        IN  /\ n <= Len(cand)
            /\ got = SubSeq(cand, 1, n)
            /\ \A m \in 1..n : SumTokens(SubSeq(cand, 1, m)) <= last.args.max_tokens
            /\ n < Len(cand) => SumTokens(SubSeq(cand, 1, n + 1)) > last.args.max_tokens

\* the first candidate does not fit, the second would, and nothing came back
C15_Witness ==
    /\ ContextReturned
    /\ "results" \in DOMAIN last.args.response.body
    /\ Len(last.args.response.body.results) = 2
    /\ SumTokens(<<Candidates(last.args.response)[1]>>) > last.args.max_tokens
    /\ SumTokens(<<Candidates(last.args.response)[2]>>) <= last.args.max_tokens
    /\ last.ret.json_dumps = <<>>

----------------------------------------------------------------------------
(* tavily.py: get_company_info *)

\* the arguments _perform_search(topic) passes to _search
PerformSearchArgs(a, topic) ==
    [query |-> a.query, search_depth |-> a.search_depth, topic |-> topic, days |-> 3,
     max_results |-> a.max_results, include_domains |-> None, exclude_domains |-> None,
     include_answer |-> FALSE, include_raw_content |-> FALSE, include_images |-> FALSE,
     kwargs |-> EmptyDict]

\* all_results: the "results" of every data that has them, in the order of
\* the topics
RECURSIVE AllResults(_)
AllResults(datas) ==
    IF datas = <<>> THEN <<>>
    ELSE (IF "results" \in DOMAIN Head(datas) THEN Head(datas).results ELSE <<>>)
         \o AllResults(Tail(datas))

\* sorted(..., key=score, reverse=True) one item at a time: the item goes
\* behind every item whose score is at least its own (the sort is stable)
RECURSIVE InsertByScore(_, _)
InsertByScore(sorted, x) ==
    IF sorted = <<>> THEN <<x>>
    ELSE IF Head(sorted).score >= x.score
    THEN <<Head(sorted)>> \o InsertByScore(Tail(sorted), x)
    ELSE <<x>> \o sorted

RECURSIVE SortedByScore(_)
SortedByScore(items) ==
    IF items = <<>> THEN <<>>
    ELSE InsertByScore(SortedByScore(SubSeq(items, 1, Len(items) - 1)), items[Len(items)])

\* a faulty get_company_info that does not sort
AsyncTavilyClient_get_company_info_unsorted(a, datas) ==
    SliceTo(AllResults(datas), a.max_results)

\* AsyncTavilyClient.get_company_info once gather has returned the data of
\* every topic
AsyncTavilyClient_get_company_info(a, datas) ==
    SliceTo(SortedByScore(AllResults(datas)), a.max_results)

\* the arguments of get_company_info, search_depth at its default
TavilyCompanyArgs(query, max_results) ==
    [query |-> query, search_depth |-> "advanced", max_results |-> max_results]

----------------------------------------------------------------------------
(* Calls as asyncio tasks.  A call is a coroutine that awaits its request;   *)
(* get_company_info gathers one task per topic.  A task is "ready" until it  *)
(* has handed its request to the transport, "sent" while the response is in  *)
(* flight, and "done" when its coroutine has finished.                       *)

NoResponse == Response(None, 0, EmptyDict)

KagiSearchArgs(query, max_results, country, language, kwargs) ==
    [query |-> query, max_results |-> max_results, country |-> country,
     language |-> language, kwargs |-> kwargs]

\* the coroutine of one task, run against the response it meets
Coroutine(cls, op, self, obj, a, topic, response) ==
    CASE cls = "AsyncKagiClient" /\ op = "web_search" ->
            AsyncKagiClient_web_search(self, obj, a.query, a.max_results, a.country,
                                       a.language, a.kwargs, response)
      [] cls = "AsyncKagiClient" /\ op = "news_search" ->
            AsyncKagiClient_news_search(self, obj, a.query, a.max_results, a.country,
                                        a.language, a.kwargs, response)
      [] cls = "AsyncKagiClient" /\ op = "summarize" ->
            AsyncKagiClient_summarize(self, obj, a, response)
      [] cls = "AsyncYouClient" /\ op = "search" ->
            AsyncYouClient_search(self, obj, a, response)
      [] cls = "AsyncYouClient" /\ op = "news" ->
            AsyncYouClient_news(self, obj, a, response)
      [] cls = "AsyncTavilyClient" /\ op = "search" ->
            AsyncTavilyClient_search(self, obj, a, response)
      [] cls = "AsyncTavilyClient" /\ op = "extract" ->
            AsyncTavilyClient_extract(self, obj, a, response)
      [] cls = "AsyncTavilyClient" /\ op = "get_search_context" ->
            AsyncTavilyClient_get_search_context(self, obj, a, response)
      [] cls = "AsyncTavilyClient" /\ op = "qna_search" ->
            AsyncTavilyClient_qna_search(self, obj, a, response)
      [] cls = "AsyncTavilyClient" /\ op = "get_company_info" ->
            AsyncTavilyClient__search(self, obj, PerformSearchArgs(a, topic), response)

\* the tasks of a call: one per topic for get_company_info, else the call itself
CallTopics(op, obj) ==
    IF op = "get_company_info" THEN obj.company_info_tags ELSE <<None>>

Task(topic, state, response, sent) ==
    [topic |-> topic, state |-> state, response |-> response, sent |-> sent]

\* The record of a call that has just started.  pre is the coroutine run up
\* to its first await: a call that raises before it has sent anything is over
\* and has no task, and get_company_info without topics returns at once.
StartedCall(cls, op, self, a, topics, pre) ==
    [op |-> op, cls |-> cls, self |-> self, args |-> a,
     status |-> IF pre.sent = <<>> THEN (IF pre.raised # None THEN "raised" ELSE "returned")
                ELSE "running",
     raised |-> IF pre.sent = <<>> THEN pre.raised ELSE None,
     message |-> IF pre.sent = <<>> /\ pre.raised # None THEN pre.ret ELSE None,
     ret |-> IF pre.sent = <<>> /\ pre.raised = None THEN pre.ret ELSE None,
     tasks |-> IF pre.sent = <<>> THEN <<>>
               ELSE [i \in 1..Len(topics) |-> Task(topics[i], "ready", NoResponse, <<>>)]]

\* A caller starts op(a) on adapter self.
StartCall(cls, op, self, a) ==
    /\ self \in DOMAIN adapters
    /\ adapters[self].cls = cls
    /\ op \in ClassMethods(cls)
    /\ Len(calls) < MaxCalls
    /\ calls' = Append(calls,
           StartedCall(cls, op, self, a, CallTopics(op, adapters[self]),
               IF op # "get_company_info"
               THEN Coroutine(cls, op, self, adapters[self], a, None, NoResponse)
               ELSE IF CallTopics(op, adapters[self]) = <<>>
               THEN Outcome(None, AsyncTavilyClient_get_company_info(a, <<>>), <<>>)
               ELSE Outcome(None, None, CallTopics(op, adapters[self]))))
    /\ UNCHANGED <<cfg, env, adapters, resolved, requests, last>>

\* a faulty send that builds the request from the arguments of the call
\* started last on the adapter
TaskSendShared(c, t, response) ==
    /\ c \in DOMAIN calls
    /\ t \in DOMAIN calls[c].tasks
    /\ calls[c].tasks[t].state = "ready"
    /\ \A u \in 1..(t - 1) : calls[c].tasks[u].state # "ready"
    /\ LET call == calls[c]
           task == call.tasks[t]
           latest == calls[Len(calls)]
           out == Coroutine(call.cls, call.op, call.self, adapters[call.self],
                            IF latest.op = call.op THEN latest.args ELSE call.args,
                            task.topic, response)
       IN  /\ requests' = requests \o out.sent
           /\ calls' = [calls EXCEPT ![c].tasks[t] =
                            Task(task.topic, "sent", response, out.sent)]
    /\ UNCHANGED <<cfg, env, adapters, resolved, last>>

\* A task hands its request to the transport; the response is in flight.  The
\* event loop runs the tasks of a gather in the order of their creation, each
\* up to its first suspension, so the requests of a call go out in the order
\* of the topics, and all of them before any response is handled.
TaskSend(c, t, response) ==
    /\ c \in DOMAIN calls
    /\ t \in DOMAIN calls[c].tasks
    /\ calls[c].tasks[t].state = "ready"
    /\ \A u \in 1..(t - 1) : calls[c].tasks[u].state # "ready"
    /\ LET call == calls[c]
           task == call.tasks[t]
           out == Coroutine(call.cls, call.op, call.self, adapters[call.self],
                            call.args, task.topic, response)
       IN  /\ requests' = requests \o out.sent
           /\ calls' = [calls EXCEPT ![c].tasks[t] =
                            Task(task.topic, "sent", response, out.sent)]
    /\ UNCHANGED <<cfg, env, adapters, resolved, last>>

\* the outcome of a task that has a response
TaskOutcome(call, task) ==
    Coroutine(call.cls, call.op, call.self, adapters[call.self], call.args,
              task.topic, task.response)

\* a faulty receive that gathers with return_exceptions and drops the failures
TaskReceiveTolerant(c, t) ==
    /\ c \in DOMAIN calls
    /\ t \in DOMAIN calls[c].tasks
    /\ calls[c].tasks[t].state = "sent"
    /\ \A u \in DOMAIN calls[c].tasks : calls[c].tasks[u].state # "ready"
    /\ LET call == calls[c]
           out == TaskOutcome(call, call.tasks[t])
           tasks2 == [call.tasks EXCEPT ![t].state = "done"]
           alldone == \A i \in DOMAIN tasks2 : tasks2[i].state = "done"
           datas == [i \in DOMAIN tasks2 |->
                        IF TaskOutcome(call, tasks2[i]).raised = None
                        THEN TaskOutcome(call, tasks2[i]).ret ELSE EmptyDict]
       IN  calls' = [calls EXCEPT ![c] =
               IF call.status # "running" THEN [call EXCEPT !.tasks = tasks2]
               ELSE IF out.raised # None /\ call.op # "get_company_info"
               THEN [call EXCEPT !.tasks = tasks2, !.status = "raised",
                                 !.raised = out.raised, !.message = out.ret]
               ELSE IF alldone
               THEN [call EXCEPT !.tasks = tasks2, !.status = "returned",
                                 !.ret = IF call.op = "get_company_info"
                                         THEN AsyncTavilyClient_get_company_info(call.args, datas)
                                         ELSE out.ret]
               ELSE [call EXCEPT !.tasks = tasks2]]
    /\ UNCHANGED <<cfg, env, adapters, resolved, requests, last>>

\* The response of a task arrives and its coroutine finishes.  gather hands
\* the first exception to the awaiting caller at once and leaves the other
\* tasks running; without an exception the caller resumes when every task is
\* done.
TaskReceive(c, t) ==
    /\ c \in DOMAIN calls
    /\ t \in DOMAIN calls[c].tasks
    /\ calls[c].tasks[t].state = "sent"
    /\ \A u \in DOMAIN calls[c].tasks : calls[c].tasks[u].state # "ready"
    /\ LET call == calls[c]
           out == TaskOutcome(call, call.tasks[t])
           tasks2 == [call.tasks EXCEPT ![t].state = "done"]
           alldone == \A i \in DOMAIN tasks2 : tasks2[i].state = "done"
           datas == [i \in DOMAIN tasks2 |-> TaskOutcome(call, tasks2[i]).ret]
       IN  calls' = [calls EXCEPT ![c] =
               IF call.status # "running" THEN [call EXCEPT !.tasks = tasks2]
               ELSE IF out.raised # None
               THEN [call EXCEPT !.tasks = tasks2, !.status = "raised",
                                 !.raised = out.raised, !.message = out.ret]
               ELSE IF alldone
               THEN [call EXCEPT !.tasks = tasks2, !.status = "returned",
                                 !.ret = IF call.op = "get_company_info"
                                         THEN AsyncTavilyClient_get_company_info(call.args, datas)
                                         ELSE out.ret]
               ELSE [call EXCEPT !.tasks = tasks2]]
    /\ UNCHANGED <<cfg, env, adapters, resolved, requests, last>>

----------------------------------------------------------------------------
(* One call of any operation on one adapter *)

\* the items of a topic's results
ScoredItems ==
    {[url |-> "u1", content |-> "c1", score |-> 1],
     [url |-> "u2", content |-> "c2", score |-> 2],
     [url |-> "u3", content |-> "c3", score |-> 2]}

\* the responses a topic request of get_company_info can meet
CompanyResponses ==
    {Response("ConnectError", 0, EmptyDict),
     Response(None, 401, EmptyDict),
     Response(None, 500, EmptyDict),
     Response(None, 200, EmptyDict)}
    \cup {Response(None, 200, [results |-> items]) : items \in SeqUpTo(ScoredItems, 1)}
    \cup {Response(None, 200, [results |-> <<[url |-> "u1", content |-> "c1", score |-> 1],
                                            [url |-> "u2", content |-> "c2", score |-> 2]>>]),
          Response(None, 200, [results |-> <<[url |-> "u3", content |-> "c3", score |-> 2],
                                            [url |-> "u1", content |-> "c1", score |-> 1]>>])}

\* the responses a task of the call can meet
CallResponses(cls, op) ==
    CASE cls = "AsyncKagiClient" /\ op = "summarize" ->
            {Response("HTTPError", 0, EmptyDict),
             Response(None, 200, EmptyDict),
             Response(None, 200, [data |-> [output |-> "o1"]])}
      [] cls = "AsyncKagiClient" ->
            {Response("HTTPError", 0, EmptyDict),
             Response(None, 200, EmptyDict),
             Response(None, 200, [data |-> <<[title |-> "t1", url |-> "u1",
                                            snippet |-> "s1", published |-> "p1"]>>])}
      [] cls = "AsyncYouClient" ->
            YouResponses
            \cup {Response(None, 200, [news |-> [results |-> <<YouItem("u1", "t1", "d1")>>]])}
      [] cls = "AsyncTavilyClient" /\ op = "get_company_info" -> CompanyResponses
      [] cls = "AsyncTavilyClient" /\ op = "get_search_context" -> ContextResponses
      [] OTHER -> TavilyResponses

\* the adapters under study, each constructed from its environment variable
CallAdapters ==
    {AsyncKagiClient_init(None, KagiDefaultBaseUrl, [EnvUnset EXCEPT !["KAGI_API_KEY"] = "e1"]).self,
     AsyncYouClient_init(None, YouDefaultBaseUrl, [EnvUnset EXCEPT !["YOU_API_KEY"] = "e1"]).self,
     AsyncTavilyClient_init("k1", DefaultCompanyInfoTags, EnvUnset).self,
     AsyncTavilyClient_init("k1", <<"finance", "news">>, EnvUnset).self}

InitCalls ==
    /\ cfg = NoConfig
    /\ env = EnvUnset
    /\ \E obj \in CallAdapters : /\ adapters = <<obj>>
                                 /\ resolved = <<HeldCredential(obj)>>
    /\ requests = <<>>
    /\ last = NoCall
    /\ calls = <<>>

NextCalls ==
    \/ /\ calls = <<>>
       /\ \E k \in MaxResultsVals :
             StartCall("AsyncKagiClient", "web_search", 1,
                       KagiSearchArgs("q", k, "US", None, EmptyDict))
    \/ /\ calls = <<>>
       /\ \E k \in MaxResultsVals :
             StartCall("AsyncKagiClient", "news_search", 1,
                       KagiSearchArgs("q", k, None, "en", EmptyDict))
    \/ /\ calls = <<>>
       /\ \E lang \in {None, "EN"} :
             StartCall("AsyncKagiClient", "summarize", 1, KagiSummarizeArgs("u1", lang))
    \/ /\ calls = <<>>
       /\ \E offset \in {0, 9, 10} :
             StartCall("AsyncYouClient", "search", 1,
                       YouSearchArgs("q", 10, offset, None, None, None))
    \/ /\ calls = <<>>
       /\ \E count \in {<<>>, <<5>>} :
             StartCall("AsyncYouClient", "news", 1, YouNewsArgs("q", count))
    \/ /\ calls = <<>>
       /\ StartCall("AsyncTavilyClient", "search", 1,
                    TavilySearchArgs("q", "general", 5, EmptyDict))
    \/ /\ calls = <<>>
       /\ StartCall("AsyncTavilyClient", "extract", 1,
                    TavilyExtractArgs(<<"u1">>, EmptyDict))
    \/ /\ calls = <<>>
       /\ \E max_tokens \in {0, MaxTokens} :
             StartCall("AsyncTavilyClient", "get_search_context", 1,
                       TavilyContextArgs("q", 5, max_tokens, EmptyDict))
    \/ /\ calls = <<>>
       /\ StartCall("AsyncTavilyClient", "qna_search", 1, TavilyQnaArgs("q", 5, EmptyDict))
    \/ /\ calls = <<>>
       /\ \E k \in MaxResultsVals :
             StartCall("AsyncTavilyClient", "get_company_info", 1, TavilyCompanyArgs("q", k))
    \/ \E c \in DOMAIN calls : \E t \in DOMAIN calls[c].tasks :
          \E response \in CallResponses(calls[c].cls, calls[c].op) :
             TaskSend(c, t, response)
    \/ \E c \in DOMAIN calls : \E t \in DOMAIN calls[c].tasks : TaskReceive(c, t)

\* one adapter of Kagi, You.com or Tavily answering one call, whose tasks run
\* in every interleaving
SpecCalls == InitCalls /\ [][NextCalls]_vars

----------------------------------------------------------------------------
(* Properties of calls *)

\* the request failed: the transport raised, or (Tavily) the status is not 2xx
FailedResponse(cls, response) ==
    \/ response.raised # None
    \/ cls = "AsyncTavilyClient" /\ ~(response.status \in 200..299)

\* the errors of the tasks of a call that are done
TaskErrors(call) ==
    {TaskOutcome(call, call.tasks[t]).raised :
        t \in {u \in DOMAIN call.tasks : call.tasks[u].state = "done"}}

\* C13: a call whose request failed never returns: once a task has met a
\* failed response the call has raised, with no value; a call that returned
\* met no failed response; the error raised is that of one of its tasks, and a
\* transport error of a single-request call is raised unchanged.
C13_FailureNeverBecomesResult ==
    \A c \in DOMAIN calls :
        LET call == calls[c]
        IN  /\ call.status = "returned" =>
                  \A t \in DOMAIN call.tasks :
                      ~FailedResponse(call.cls, call.tasks[t].response)
            /\ \A t \in DOMAIN call.tasks :
                  (call.tasks[t].state = "done"
                   /\ FailedResponse(call.cls, call.tasks[t].response)) =>
                      /\ call.status = "raised"
                      /\ call.ret = None
                      /\ call.raised \in TaskErrors(call) \ {None}
                      /\ (call.op # "get_company_info"
                          /\ call.tasks[t].response.raised # None) =>
                             call.raised = call.tasks[t].response.raised

\* qna_search met a 500 and raised
C13_Witness ==
    /\ Len(calls) = 1
    /\ calls[1].op = "qna_search"
    /\ calls[1].tasks[1].state = "done"
    /\ calls[1].tasks[1].response.status = 500
    /\ calls[1].status = "raised"
    /\ calls[1].raised = "HTTPStatusError"

\* the results the topics of a call returned, as (task, position) pairs
TopicResults(call, t) ==
    IF "results" \in DOMAIN call.tasks[t].response.body
    THEN call.tasks[t].response.body.results ELSE <<>>

Merged(call) ==
    UNION {{<<t, j>> : j \in DOMAIN TopicResults(call, t)} : t \in DOMAIN call.tasks}

MergedItem(call, p) == TopicResults(call, p[1])[p[2]]

\* get_company_info returned a list
CompanyReturned(call) == call.op = "get_company_info" /\ call.status = "returned"

\* the list is sorted by descending score, holds at most max_results items,
\* each of them as often at most as the topics returned it, and holds the
\* max_results highest scores of the merge
TopOfMerge(call) ==
    LET got == call.ret
        merged == Merged(call)
        k == call.args.max_results
    IN  /\ \A i, j \in DOMAIN got : i < j => got[i].score >= got[j].score
        /\ Len(got) <= k
        /\ Len(got) = Min(k, Cardinality(merged))
        /\ \A x \in ScoredItems :
              Cardinality({i \in DOMAIN got : got[i] = x})
                  <= Cardinality({p \in merged : MergedItem(call, p) = x})
        /\ \A s \in {x.score : x \in ScoredItems} :
              Cardinality({i \in DOMAIN got : got[i].score >= s})
                  = Min(Len(got), Cardinality({p \in merged : MergedItem(call, p).score >= s}))

\* one request per configured topic, each for its topic, and no other
OneRequestPerTopic(call) ==
    LET tags == adapters[call.self].company_info_tags
    IN  /\ Len(call.tasks) = Len(tags)
        /\ \A t \in DOMAIN call.tasks :
              /\ Len(call.tasks[t].sent) = 1
              /\ call.tasks[t].sent[1].params.topic = tags[t]
              /\ call.tasks[t].sent[1].params.query = call.args.query

\* C16 as stated: for every max_results, the list get_company_info returns is
\* sorted by descending score, has at most max_results items and is the
\* max_results highest-scored items of the merged results of the configured
\* topics, one request per topic.
C16_CompanyInfoTopOfMerge ==
    \A c \in DOMAIN calls :
        CompanyReturned(calls[c]) =>
            TopOfMerge(calls[c]) /\ OneRequestPerTopic(calls[c])

\* C16, amended: the same for every max_results >= 0.
C16_CompanyInfoTopOfMergeNonNegative ==
    \A c \in DOMAIN calls :
        (CompanyReturned(calls[c]) /\ calls[c].args.max_results >= 0) =>
            TopOfMerge(calls[c]) /\ OneRequestPerTopic(calls[c])

\* three topics returned four items between them and the two best came back
C16_Witness ==
    /\ Len(calls) = 1
    /\ CompanyReturned(calls[1])
    /\ Len(calls[1].tasks) = 3
    /\ calls[1].args.max_results = 2
    /\ Cardinality(Merged(calls[1])) = 4
    /\ Len(calls[1].ret) = 2
    /\ calls[1].ret[1].score = 2

\* C17: get_company_info returns only when no topic request failed; once a
\* topic request has failed the call has raised the error of one of its
\* topics and has no list, whatever the other topics returned.
C17_CompanyInfoAllOrNothing ==
    \A c \in DOMAIN calls :
        calls[c].op = "get_company_info" =>
            LET call == calls[c]
                failed == {t \in DOMAIN call.tasks :
                              /\ call.tasks[t].state = "done"
                              /\ FailedResponse(call.cls, call.tasks[t].response)}
            IN  /\ failed # {} =>
                      /\ call.status = "raised"
                      /\ call.ret = None
                      /\ \E t \in failed :
                            call.raised = TaskOutcome(call, call.tasks[t]).raised
                /\ call.status = "returned" =>
                      \A t \in DOMAIN call.tasks :
                          /\ call.tasks[t].state = "done"
                          /\ ~FailedResponse(call.cls, call.tasks[t].response)

\* one topic failed after another had returned results: the call raised
C17_Witness ==
    /\ Len(calls) = 1
    /\ calls[1].op = "get_company_info"
    /\ calls[1].status = "raised"
    /\ calls[1].raised = "InvalidAPIKeyError"
    /\ \E t \in DOMAIN calls[1].tasks :
          /\ calls[1].tasks[t].state = "done"
          /\ calls[1].tasks[t].response.status = 200
          /\ TopicResults(calls[1], t) # <<>>

\* C18: when get_company_info has completed, by returning or by raising, every
\* one of its topic requests has completed.
C18_CompanyInfoJoinsAllRequests ==
    \A c \in DOMAIN calls :
        (calls[c].op = "get_company_info" /\ calls[c].status # "running") =>
            \A t \in DOMAIN calls[c].tasks : calls[c].tasks[t].state = "done"

\* the requests sent by the tasks of all calls
RequestsOfTasks ==
    UNION {{<<c, t>> : t \in {u \in DOMAIN calls[c].tasks :
                                  calls[c].tasks[u].state # "ready"}} :
           c \in DOMAIN calls}

\* the number of requests a call is to issue: one per configured topic for
\* get_company_info, one for every other operation
RequestsDue(call) ==
    IF call.op = "get_company_info"
    THEN Len(CallTopics(call.op, adapters[call.self]))
    ELSE 1

\* every task that has sent has sent exactly one request and the log holds no
\* other request
OneRequestPerTask ==
    /\ \A c \in DOMAIN calls : \A t \in DOMAIN calls[c].tasks :
          Len(calls[c].tasks[t].sent) = IF calls[c].tasks[t].state = "ready" THEN 0 ELSE 1
    /\ Len(requests) = Cardinality(RequestsOfTasks)

\* a call refused by the validation of its arguments, before any request
Refused(call) ==
    /\ call.cls = "AsyncYouClient"
    /\ call.op = "search"
    /\ call.args.offset \notin 0..9
    /\ call.status = "raised"
    /\ call.raised = "ValueError"

\* C20 as stated: every invocation issues exactly one request whatever its
\* outcome, and get_company_info exactly one per configured topic.
C20_OneRequestPerInvocation ==
    /\ OneRequestPerTask
    /\ \A c \in DOMAIN calls : Len(calls[c].tasks) = RequestsDue(calls[c])

\* C20: every invocation whose arguments pass validation issues exactly one
\* request whatever its outcome (one per configured topic for
\* get_company_info) and no adapter sends a second one; a You search whose
\* offset is outside 0..9 raises ValueError and issues none.
C20_OneRequestPerValidInvocation ==
    /\ OneRequestPerTask
    /\ \A c \in DOMAIN calls :
          IF Refused(calls[c])
          THEN calls[c].tasks = <<>>
          ELSE Len(calls[c].tasks) = RequestsDue(calls[c])

\* every topic request of a get_company_info is done, one of them refused,
\* and the log holds one request per topic
C20_Witness ==
    /\ Len(calls) = 1
    /\ calls[1].op = "get_company_info"
    /\ calls[1].raised = "InvalidAPIKeyError"
    /\ Len(calls[1].tasks) = 3
    /\ \A t \in DOMAIN calls[1].tasks : calls[1].tasks[t].state = "done"
    /\ Len(requests) = 3

----------------------------------------------------------------------------
(* Concurrent calls on one adapter *)

\* the responses a task of concurrent calls can meet: a result and a failure
ConcurrentResponses(cls) ==
    CASE cls = "AsyncKagiClient" ->
            {Response("HTTPError", 0, EmptyDict),
             Response(None, 200, [data |-> <<[title |-> "t1", url |-> "u1",
                                            snippet |-> "s1", published |-> "p1"]>>])}
      [] cls = "AsyncYouClient" ->
            {Response("HTTPError", 0, EmptyDict),
             Response(None, 200, [results |-> [web |-> <<YouItem("u1", "t1", "d1")>>,
                                               news |-> <<>>]])}
      [] OTHER ->
            {Response(None, 401, EmptyDict),
             Response(None, 200, [results |-> <<[url |-> "u1", content |-> "c1",
                                               score |-> 1]>>])}

\* the adapters under study
ConcurrentAdapters ==
    {AsyncKagiClient_init("k1", KagiDefaultBaseUrl, EnvUnset).self,
     AsyncYouClient_init("k1", YouDefaultBaseUrl, EnvUnset).self,
     AsyncTavilyClient_init("k1", <<"finance", "news">>, EnvUnset).self}

Queries == {"q1", "q2"}

InitConcurrent ==
    /\ cfg = NoConfig
    /\ env = EnvUnset
    /\ \E obj \in ConcurrentAdapters : /\ adapters = <<obj>>
                                       /\ resolved = <<HeldCredential(obj)>>
    /\ requests = <<>>
    /\ last = NoCall
    /\ calls = <<>>

NextConcurrent ==
    \/ \E q \in Queries :
          StartCall("AsyncKagiClient", "web_search", 1,
                    KagiSearchArgs(q, 1, None, None, EmptyDict))
    \/ \E q \in Queries :
          StartCall("AsyncYouClient", "search", 1, YouSearchArgs(q, 10, 0, None, None, None))
    \/ \E q \in Queries :
          StartCall("AsyncTavilyClient", "search", 1,
                    TavilySearchArgs(q, "general", 5, EmptyDict))
    \/ /\ \A c \in DOMAIN calls : calls[c].op # "get_company_info"
       /\ \E q \in Queries :
             StartCall("AsyncTavilyClient", "get_company_info", 1, TavilyCompanyArgs(q, 1))
    \/ \E c \in DOMAIN calls : \E t \in DOMAIN calls[c].tasks :
          \E response \in ConcurrentResponses(calls[c].cls) : TaskSend(c, t, response)
    \/ \E c \in DOMAIN calls : \E t \in DOMAIN calls[c].tasks : TaskReceive(c, t)

\* up to MaxCalls calls in flight at once on one adapter, at most one of them
\* a get_company_info, their steps in every interleaving
SpecConcurrent == InitConcurrent /\ [][NextConcurrent]_vars

\* the call run alone on the adapter against the response its task met
Alone(call, t) ==
    Coroutine(call.cls, call.op, call.self, adapters[call.self], call.args,
              call.tasks[t].topic, call.tasks[t].response)

\* the requests of a call are those it sends when it runs alone, and so is
\* its result
AsIfAlone(call) ==
    /\ \A t \in DOMAIN call.tasks :
          call.tasks[t].state # "ready" =>
              /\ call.tasks[t].sent = Alone(call, t).sent
              /\ \A i \in DOMAIN call.tasks[t].sent :
                    LET params == call.tasks[t].sent[i].params
                    IN  IF call.cls = "AsyncKagiClient" THEN params.q = call.args.query
                        ELSE params.query = call.args.query
    /\ (call.op # "get_company_info" /\ call.tasks # <<>>
        /\ call.tasks[1].state = "done") =>
          IF Alone(call, 1).raised # None
          THEN call.status = "raised" /\ call.raised = Alone(call, 1).raised
          ELSE call.status = "returned" /\ call.ret = Alone(call, 1).ret
    /\ (call.op = "get_company_info" /\ call.status = "returned") =>
          call.ret = AsyncTavilyClient_get_company_info(call.args,
                         [t \in DOMAIN call.tasks |-> Alone(call, t).ret])

----------------------------------------------------------------------------
(* config.py: the tagged representation of a configuration record.  The    *)
(* records are pydantic models: a SecretStr field is written as a mask, the *)
(* `type` field is the discriminator of the unions, extra keys are          *)
(* forbidden and retries / wait_time are declared ge=0.                     *)

\* the fields declared SecretStr | None
SecretFields == {"api_key", "login", "password"}

\* the fields declared int with ge=0
NonNegativeFields == {"retries", "wait_time"}

\* what a SecretStr is written as: a mask, whatever the secret, and the empty
\* string for the empty secret
Masked(v) == IF v = None THEN None ELSE IF v = "" THEN "" ELSE "**********"

\* a faulty serialization that writes the secret's value
model_dump_plaintext(c) == c

\* the serialized form of record c: every declared field, `type` included
model_dump(c) ==
    [f \in DOMAIN c |-> IF f \in SecretFields THEN Masked(c[f]) ELSE c[f]]

\* the record of variant type with every field at its declared default
ConfigDefaults(type) ==
    CASE type = "brave" -> BraveSearchConfig(None)
      [] type = "dataforseo" -> DataForSEOConfig(None, None)
      [] type = "exa" -> ExaConfig(None)
      [] type = "jigsawstack" -> JigsawStackConfig(None)
      [] type = "kagi" -> KagiConfig(None)
      [] type = "linkup" -> LinkUpConfig(None)
      [] type = "search1" -> Search1Config(None)
      [] type = "serpapi" -> SerpAPIConfig(None)
      [] type = "serper" -> SerperConfig(None)
      [] type = "tavily" -> TavilyConfig(None)
      [] OTHER -> YouConfig(None)

\* reconstruction of a record of the union from its serialized form: the
\* `type` key selects the variant, whose declared fields are then validated
model_validate(union, data) ==
    IF "type" \notin DOMAIN data THEN Raise("ValidationError")
    ELSE IF data.type \notin union THEN Raise("ValidationError")
    ELSE LET d == ConfigDefaults(data.type)
         IN  IF ~(DOMAIN data \subseteq DOMAIN d) THEN Raise("ValidationError")
             ELSE IF \E f \in DOMAIN data \cap NonNegativeFields : data[f] < 0
             THEN Raise("ValidationError")
             ELSE Return([f \in DOMAIN d |-> IF f \in DOMAIN data THEN data[f] ELSE d[f]])

\* c.model_dump(): the serialized form is handed to the caller
ModelDump ==
    /\ cfg # NoConfig
    /\ last.op # "model_dump"
    /\ last' = Call("model_dump", 0, [of |-> cfg], "ok", model_dump(cfg))
    /\ UNCHANGED <<cfg, env, adapters, resolved, requests, calls>>

\* the unions a serialized form is reconstructed through
Unions ==
    [WebSearchProviderConfig |-> WebSearchProviderConfig,
     NewsSearchProviderConfig |-> NewsSearchProviderConfig]

\* a record is reconstructed, through the union named, from the serialized
\* form handed out last and takes the place of the record
ModelValidate(union) ==
    /\ last.op = "model_dump"
    /\ LET out == model_validate(Unions[union], last.ret)
           a == [of |-> last.args.of, data |-> last.ret, union |-> union]
       IN  IF out.raised = None
           THEN /\ cfg' = out.self
                /\ last' = Call("model_validate", 0, a, "ok", out.self)
           ELSE /\ last' = Call("model_validate", 0, a, out.raised, None)
                /\ UNCHANGED cfg
    /\ UNCHANGED <<env, adapters, resolved, requests, calls>>

\* the values of a base_url field
BaseUrlFieldVals == {"b1"}

\* every configuration record under every assignment of its fields: the
\* secrets, a base_url other than the default, retries and wait_time
FieldAssignments ==
    Configs
    \cup {[c EXCEPT !.base_url = b] :
            c \in {x \in Configs : "base_url" \in DOMAIN x}, b \in BaseUrlFieldVals}
    \cup {[c EXCEPT !.retries = r, !.wait_time = w] :
            c \in {x \in Configs : "retries" \in DOMAIN x}, r \in 0..MaxK, w \in 0..MaxK}

InitRoundTrip ==
    /\ cfg \in FieldAssignments
    /\ env = EnvUnset
    /\ adapters = <<>>
    /\ resolved = <<>>
    /\ requests = <<>>
    /\ last = NoCall
    /\ calls = <<>>

NextRoundTrip ==
    \/ ModelDump
    \/ ModelValidate("WebSearchProviderConfig")
    \/ ModelValidate("NewsSearchProviderConfig")

\* a configuration record serialized and reconstructed, again and again
SpecRoundTrip == InitRoundTrip /\ [][NextRoundTrip]_vars

\* the fields of a record that are not secrets
NonSecret(c) == [f \in DOMAIN c \ SecretFields |-> c[f]]

\* a reconstruction through a union that has the record's variant has just
\* completed
Reconstructed ==
    /\ last.op = "model_validate"
    /\ last.args.of.type \in Unions[last.args.union]

----------------------------------------------------------------------------
(* Endpoints: adapters constructed with and without base_url *)

\* the base_url argument of a constructor: omitted (None) or an override
BaseUrlArgs == {None, "https://proxy.example"}

\* the base_url parameter of __init__ with the default of the signature
BaseUrlParam(cls, base_url) ==
    IF base_url # None THEN base_url
    ELSE IF cls = "AsyncKagiClient" THEN KagiDefaultBaseUrl ELSE YouDefaultBaseUrl

\* AsyncKagiClient(api_key=..., base_url=...) / AsyncYouClient(...), the
\* base_url possibly omitted
ConstructAt(cls, api_key, base_url) ==
    /\ cls \in {"AsyncKagiClient", "AsyncYouClient"}
    /\ Len(adapters) < MaxAdapters
    /\ LET out == IF cls = "AsyncKagiClient"
                  THEN AsyncKagiClient_init(api_key, BaseUrlParam(cls, base_url), env)
                  ELSE AsyncYouClient_init(api_key, BaseUrlParam(cls, base_url), env)
           a == [cls |-> cls, api_key |-> api_key, base_url |-> base_url]
       IN  IF out.raised = None
           THEN /\ adapters' = Append(adapters, out.self)
                /\ resolved' = Append(resolved, HeldCredential(out.self))
                /\ last' = Call("__init__", Len(adapters) + 1, a, "ok", Len(adapters) + 1)
           ELSE /\ last' = Call("__init__", 0, a, out.raised, None)
                /\ UNCHANGED <<adapters, resolved>>
    /\ UNCHANGED <<cfg, env, requests, calls>>

YouNews(self, a, response) ==
    /\ self \in DOMAIN adapters
    /\ adapters[self].cls = "AsyncYouClient"
    /\ Len(requests) < MaxRequests
    /\ Complete("news", self, a @@ [response |-> response],
                AsyncYouClient_news(self, adapters[self], a, response))

InitEndpoints ==
    /\ cfg = NoConfig
    /\ env = EnvUnset
    /\ adapters = <<>>
    /\ resolved = <<>>
    /\ requests = <<>>
    /\ last = NoCall
    /\ calls = <<>>

NextEndpoints ==
    \/ \E cls \in {"AsyncKagiClient", "AsyncYouClient"}, k \in {None, "k1"}, b \in BaseUrlArgs :
          ConstructAt(cls, k, b)
    \/ \E self \in DOMAIN adapters, response \in ClientKagiResponses :
          KagiWebSearch(self, "q", 1, None, None, EmptyDict, response)
    \/ \E self \in DOMAIN adapters, response \in ClientKagiResponses :
          KagiNewsSearch(self, "q", 1, None, None, EmptyDict, response)
    \/ \E self \in DOMAIN adapters, response \in ClientYouResponses :
          YouSearch(self, YouSearchArgs("q", 10, 0, None, None, None), response)
    \/ \E self \in DOMAIN adapters, response \in ClientYouResponses :
          YouNews(self, YouNewsArgs("q", <<>>), response)

\* Kagi and You adapters constructed with and without a base_url, and their
\* searches
SpecEndpoints == InitEndpoints /\ [][NextEndpoints]_vars

\* the default base_url of the configuration record of an adapter class
ConfigBaseUrl(cls) ==
    IF cls = "AsyncKagiClient" THEN KagiConfig(None).base_url ELSE YouConfig(None).base_url

\* an adapter has just been constructed without a base_url
ConstructedAtDefault ==
    /\ last.op = "__init__"
    /\ last.outcome = "ok"
    /\ last.args.base_url = None

\* C22 (Kagi): a Kagi adapter constructed without base_url has the base URL
\* its configuration record defaults to, https://kagi.com/api/v0, and every
\* request of a Kagi adapter goes to the adapter's base_url.
C22_KagiEndpoint ==
    /\ ConstructedAtDefault /\ last.args.cls = "AsyncKagiClient" =>
          /\ adapters[last.ret].base_url = ConfigBaseUrl("AsyncKagiClient")
          /\ adapters[last.ret].base_url = "https://kagi.com/api/v0"
    /\ \A i \in DOMAIN requests :
          adapters[requests[i].self].cls = "AsyncKagiClient" =>
             requests[i].url[1] = adapters[requests[i].self].base_url

\* C22: an adapter constructed without base_url has the base URL its
\* configuration record defaults to, and the URL of every search request
\* starts with the adapter's base_url.
C22_DefaultEndpointAndOverride ==
    /\ ConstructedAtDefault =>
          adapters[last.ret].base_url = ConfigBaseUrl(last.args.cls)
    /\ \A i \in DOMAIN requests :
          requests[i].url[1] = adapters[requests[i].self].base_url

----------------------------------------------------------------------------
(* Properties of the Kagi normalization *)

\* the provider's items that have a non-empty url, in the provider's order
RECURSIVE WithUrl(_)
WithUrl(items) ==
    IF items = <<>> THEN <<>>
    ELSE IF items[1].url \notin {None, ""}
    THEN <<items[1]>> \o WithUrl(Tail(items))
    ELSE WithUrl(Tail(items))

\* the provider's items of the search that has just returned
ProviderItems == KagiData(last.args.response.body)

\* C23: every news_search result has the key published; its value is the
\* provider item's published value, unmodified, when the item has one, and
\* null when it has none.
C23_PublishedNeverOmitted ==
    (last.op = "news_search" /\ last.outcome = "ok") =>
        \A i \in DOMAIN last.ret.results :
            /\ "published" \in DOMAIN last.ret.results[i]
            /\ last.ret.results[i].published = WithUrl(ProviderItems)[i].published

\* a news_search returned two results, the first from an item with a
\* published value and the second from an item without
C23_Witness ==
    /\ last.op = "news_search"
    /\ last.outcome = "ok"
    /\ Len(last.ret.results) = 2
    /\ last.ret.results[1].published = "p1"
    /\ last.ret.results[2].published = None
    /\ ProviderItems[2].published = None

\* the unified fields of a provider item, as the claim reads them
Unified(item, news) ==
    LET w == [title |-> IF item.title = None THEN "" ELSE item.title,
              url |-> item.url,
              snippet |-> IF item.snippet = None THEN "" ELSE item.snippet]
    IN  IF news THEN w @@ [published |-> item.published] ELSE w

\* the first k items of a list: all of it when it has fewer, none for k <= 0
FirstK(s, k) == [i \in 1..(IF k < Len(s) THEN k ELSE Len(s)) |-> s[i]]

\* the results are the first max_results of the items that have a url
FirstOfItemsWithUrl ==
    LET kept == FirstK(WithUrl(ProviderItems), last.args.max_results)
    IN  last.ret.results =
           [i \in DOMAIN kept |-> Unified(kept[i], last.op = "news_search")]

\* C24 as stated: for every max_results, the result list is the first
\* max_results items, in provider order, of the items that have a non-empty
\* url.
C24_FilterThenTruncate ==
    IsKagiSearch => FirstOfItemsWithUrl

\* C24, amended: for every max_results >= 0, the result list is the first
\* max_results items, in provider order, of the items that have a non-empty
\* url; items without a url are excluded and do not count toward max_results.
C24_FilterThenTruncateNonNegative ==
    (IsKagiSearch /\ last.args.max_results >= 0) => FirstOfItemsWithUrl

\* the provider's first item has no url, the second has one, max_results is
\* 1, and the second item is the result
C24_Witness ==
    /\ last.op = "news_search"
    /\ last.outcome = "ok"
    /\ last.args.max_results = 1
    /\ Len(ProviderItems) = 2
    /\ ProviderItems[1].url = None
    /\ ProviderItems[2].url = "u1"
    /\ Len(last.ret.results) = 1
    /\ last.ret.results[1].url = "u1"

----------------------------------------------------------------------------
(* serpapi.py *)

\* the value read for a key that a dict does not have
Missing == "<missing>"

\* d.get(key): None for a key that is missing
GetOrNone(v) == IF v = Missing THEN None ELSE v

\* d.get(key, default)
GetOr(v, default) == IF v = Missing THEN default ELSE v

\* validation of the model SearchResult of serpapi.py: title, link and
\* snippet are declared str
SerpAPI_SearchResult(title, link, snippet, position, source) ==
    IF title = None \/ link = None \/ snippet = None
    THEN [raised |-> "pydantic.ValidationError", value |-> None]
    ELSE [raised |-> None,
          value |-> [title |-> title, link |-> link, snippet |-> snippet,
                     position |-> position, source |-> source]]

\* one element of the list comprehension over organic_results: result["title"]
\* and result["link"] raise KeyError for a missing key
SerpAPI_Item(result) ==
    IF result.title = Missing \/ result.link = Missing
    THEN [raised |-> "KeyError", value |-> None]
    ELSE SerpAPI_SearchResult(result.title, result.link, GetOr(result.snippet, ""),
                              GetOrNone(result.position), GetOrNone(result.source))

\* a faulty params dict that sends safe as the boolean
SerpAPIParams_boolean_safe(a) ==
    LET p0 == [q |-> a.query, num |-> a.max_results,
               safe |-> IF a.safe THEN "True" ELSE "False"]
        p1 == IF Truthy(a.country) THEN ("gl" :> Lower(a.country)) @@ p0 ELSE p0
        p2 == IF Truthy(a.language) THEN ("hl" :> Lower(a.language)) @@ p1 ELSE p1
        p3 == IF Truthy(a.location) THEN ("location" :> a.location) @@ p2 ELSE p2
    IN  CASE a.search_type = "search" -> ("engine" :> "google") @@ p3
          [] a.search_type = "news" -> ("engine" :> "google_news") @@ p3
          [] a.search_type = "images" -> ("engine" :> "google_images") @@ p3
          [] a.search_type = "videos" -> ("engine" :> "google_videos") @@ p3
          [] OTHER -> p3

\* the params dict of search; the match statement has no default case
SerpAPIParams(a) ==
    LET p0 == [q |-> a.query, num |-> a.max_results]
        p1 == IF Truthy(a.country) THEN ("gl" :> Lower(a.country)) @@ p0 ELSE p0
        p2 == IF Truthy(a.language) THEN ("hl" :> Lower(a.language)) @@ p1 ELSE p1
        p3 == IF Truthy(a.location) THEN ("location" :> a.location) @@ p2 ELSE p2
        p4 == IF a.safe THEN ("safe" :> "active") @@ p3 ELSE p3
    IN  CASE a.search_type = "search" -> ("engine" :> "google") @@ p4
          [] a.search_type = "news" -> ("engine" :> "google_news") @@ p4
          [] a.search_type = "images" -> ("engine" :> "google_images") @@ p4
          [] a.search_type = "videos" -> ("engine" :> "google_videos") @@ p4
          [] OTHER -> p4

\* the first exception of a sequence of evaluations, None when there is none
RECURSIVE FirstRaised(_)
FirstRaised(outs) ==
    IF outs = <<>> THEN None
    ELSE IF outs[1].raised # None THEN outs[1].raised
    ELSE FirstRaised(Tail(outs))

\* results.get("organic_results", [])
OrganicResults(results) ==
    IF "organic_results" \in DOMAIN results THEN results.organic_results ELSE <<>>

\* AsyncSerpAPIClient.search; a holds the arguments by name.  The request is
\* the call self.client.search(**params) of the serpapi SDK.
AsyncSerpAPIClient_search(self, obj, a, response) ==
    LET req == Request(self, "serpapi.Client.search", <<"serpapi", "">>, SerpAPIParams(a),
                       "api_key" :> <<"", obj.client.api_key>>)
        results == response.body
        organic == OrganicResults(results)
        items == [i \in DOMAIN organic |-> SerpAPI_Item(organic[i])]
    IN  IF response.raised # None THEN Outcome(response.raised, None, <<req>>)
        ELSE IF "search_parameters" \notin DOMAIN results
                \/ "search_metadata" \notin DOMAIN results
        THEN Outcome("KeyError", None, <<req>>)
        ELSE IF FirstRaised(items) # None THEN Outcome(FirstRaised(items), None, <<req>>)
        ELSE Outcome(None,
                     [search_parameters |-> results.search_parameters,
                      search_metadata |-> results.search_metadata,
                      organic_results |-> [i \in DOMAIN items |-> items[i].value],
                      total_results |-> IF "search_information" \in DOMAIN results
                                        THEN Get(results.search_information, "total_results")
                                        ELSE None,
                      search_information |-> Get(results, "search_information"),
                      pagination |-> Get(results, "pagination")],
                     <<req>>)

\* the arguments of search; max_results at its default
SerpAPISearchArgs(query, search_type, country, language, location, safe) ==
    [query |-> query, search_type |-> search_type, country |-> country,
     language |-> language, location |-> location, safe |-> safe, max_results |-> 10]

SerpAPISearch(self, a, response) ==
    /\ self \in DOMAIN adapters
    /\ adapters[self].cls = "AsyncSerpAPIClient"
    /\ Len(requests) < MaxRequests
    /\ Complete("search", self, a @@ [response |-> response],
                AsyncSerpAPIClient_search(self, adapters[self], a, response))

----------------------------------------------------------------------------
(* providers/exa_provider/exa.py *)

\* validation of the model SearchResult of exa.py: title and url are
\* declared str
Exa_SearchResult(title, url, text, summary, author, published_date, score) ==
    IF title = None \/ url = None
    THEN [raised |-> "pydantic.ValidationError", value |-> None]
    ELSE [raised |-> None,
          value |-> [title |-> title, url |-> url, text |-> text, summary |-> summary,
                     author |-> author, published_date |-> published_date,
                     score |-> score]]

\* one element of the list comprehension over results.results
Exa_Item(result) ==
    Exa_SearchResult(PyOr(result.title, ""), result.url, result.text, result.summary,
                     result.author, result.published_date, result.score)

\* the keyword arguments of self.client.search_and_contents; text is <<>>
\* for True and <<n>> for {"max_characters": n}
ExaParams(a) ==
    [query |-> a.query,
     text |-> a.max_characters,
     summary |-> a.summary, num_results |-> a.num_results,
     include_domains |-> a.include_domains, exclude_domains |-> a.exclude_domains,
     start_published_date |-> a.start_published_date,
     end_published_date |-> a.end_published_date,
     type |-> a.search_type, category |-> a.category]

\* AsyncExaClient.search; a holds the arguments by name.  The request is the
\* call self.client.search_and_contents(...) of the exa_py SDK; the body of the
\* response is the object it returns, its cost_dollars <<>> for None and <<t>>
\* for an object whose total is t.
AsyncExaClient_search(self, obj, a, response) ==
    LET req == Request(self, "exa_py.AsyncExa.search_and_contents", <<"exa", "">>,
                       ExaParams(a), "api_key" :> <<"", obj.client.api_key>>)
        results == response.body
        items == [i \in DOMAIN results.results |-> Exa_Item(results.results[i])]
    IN  IF response.raised # None THEN Outcome(response.raised, None, <<req>>)
        ELSE IF FirstRaised(items) # None THEN Outcome(FirstRaised(items), None, <<req>>)
        ELSE Outcome(None,
                     [results |-> [i \in DOMAIN items |-> items[i].value],
                      resolved_search_type |-> results.resolved_search_type,
                      cost_dollars |-> IF results.cost_dollars # <<>>
                                       THEN results.cost_dollars[1] ELSE None],
                     <<req>>)

\* the arguments of search; max_characters: int | None is <<>> for None and
\* <<n>> for the integer n
ExaSearchArgs(query, num_results, max_characters) ==
    [query |-> query, num_results |-> num_results, max_characters |-> max_characters,
     include_domains |-> None, exclude_domains |-> None, start_published_date |-> None,
     end_published_date |-> None, search_type |-> "auto", category |-> None,
     summary |-> None]

ExaSearch(self, a, response) ==
    /\ self \in DOMAIN adapters
    /\ adapters[self].cls = "AsyncExaClient"
    /\ Len(requests) < MaxRequests
    /\ Complete("search", self, a @@ [response |-> response],
                AsyncExaClient_search(self, adapters[self], a, response))

----------------------------------------------------------------------------
(* One search on a SerpAPI or an Exa adapter *)

\* the items of organic_results: title and link missing, null or a string
SerpAPIItems ==
    [title : {"t1"}, link : {Missing, None, "l1", "l2"}, snippet : {Missing, "s1"},
     position : {Missing}, source : {Missing, "src"}]

\* the responses of the SerpAPI SDK: a failure, a body without organic_results
\* and every list of at most MaxItems items
SerpAPIResponses ==
    {Response("serpapi.HTTPError", 0, EmptyDict),
     Response(None, 200, [search_parameters |-> EmptyDict, search_metadata |-> EmptyDict])}
    \cup {Response(None, 200, [search_parameters |-> EmptyDict, search_metadata |-> EmptyDict,
                               organic_results |-> items,
                               search_information |-> [total_results |-> "n1"]]) :
            items \in SeqUpTo(SerpAPIItems, MaxItems)}

\* the result objects of the Exa SDK: url null or a string
ExaItems ==
    [title : {None, "t1"}, url : {None, "u1", "u2"}, text : {"x1"}, summary : {None},
     author : {None}, published_date : {None, "p1"}, score : {None}]

\* the responses of the Exa SDK
ExaResponses ==
    {Response("ValueError", 0, EmptyDict)}
    \cup {Response(None, 200, [results |-> items, resolved_search_type |-> "neural",
                               cost_dollars |-> c]) :
            items \in SeqUpTo(ExaItems, MaxItems), c \in {<<>>, <<"c1">>}}

InitSdk ==
    /\ cfg = NoConfig
    /\ env = EnvUnset
    /\ adapters = <<AsyncSerpAPIClient_init("k1", env).self, AsyncExaClient_init("k1", env).self>>
    /\ resolved = <<"k1", "k1">>
    /\ requests = <<>>
    /\ last = NoCall
    /\ calls = <<>>

\* one search on one of the adapters, for every argument and every response
NextSdk ==
    \/ /\ requests = <<>>
       /\ \E search_type \in {"search", "news", "images", "videos"}, safe \in BOOLEAN,
             country \in {None, "US"}, language \in {None, "EN"}, location \in {None, "loc"} :
             SerpAPISearch(1, SerpAPISearchArgs("q", search_type, country, language,
                                                location, safe),
                           Response(None, 200, [search_parameters |-> EmptyDict,
                                                search_metadata |-> EmptyDict]))
    \/ /\ requests = <<>>
       /\ \E response \in SerpAPIResponses :
             SerpAPISearch(1, SerpAPISearchArgs("q", "search", None, None, None, TRUE),
                           response)
    \/ /\ requests = <<>>
       /\ \E response \in ExaResponses, max_characters \in {<<>>, <<500>>} :
             ExaSearch(2, ExaSearchArgs("q", 10, max_characters), response)

\* a SerpAPI adapter and an Exa adapter, each answering one search
SpecSdk == InitSdk /\ [][NextSdk]_vars

----------------------------------------------------------------------------
(* Properties of the SerpAPI and Exa searches *)

\* a search has completed whose transport did not fail
SdkAnswered ==
    /\ last.op = "search"
    /\ adapters[last.self].cls \in {"AsyncSerpAPIClient", "AsyncExaClient"}
    /\ last.args.response.raised = None

\* the URLs of the provider's items that have one, in the provider's order
RECURSIVE UrlsOf(_, _)
UrlsOf(items, key) ==
    IF items = <<>> THEN <<>>
    ELSE IF items[1][key] \in {Missing, None} THEN UrlsOf(Tail(items), key)
    ELSE <<items[1][key]>> \o UrlsOf(Tail(items), key)

\* C25: a provider item without a URL is left out of the results and the
\* call returns the remaining items; it does not fail.
C25_UrlLessItemsExcluded ==
    SdkAnswered =>
        /\ last.outcome = "ok"
        /\ IF adapters[last.self].cls = "AsyncSerpAPIClient"
           THEN [i \in DOMAIN last.ret.organic_results |-> last.ret.organic_results[i].link]
                   = UrlsOf(OrganicResults(last.args.response.body), "link")
           ELSE [i \in DOMAIN last.ret.results |-> last.ret.results[i].url]
                   = UrlsOf(last.args.response.body.results, "url")

\* what the code does instead: the call fails as soon as one item has no URL
UrlLessItemFailsCall ==
    SdkAnswered =>
        LET serp == adapters[last.self].cls = "AsyncSerpAPIClient"
            items == IF serp THEN OrganicResults(last.args.response.body)
                     ELSE last.args.response.body.results
            key == IF serp THEN "link" ELSE "url"
        IN  (\E i \in DOMAIN items : items[i][key] \in {Missing, None})
               <=> last.outcome \in {"KeyError", "pydantic.ValidationError"}

\* the engine the claim assigns to a search_type
EngineOf(search_type) ==
    CASE search_type = "search" -> "google"
      [] search_type = "news" -> "google_news"
      [] search_type = "images" -> "google_images"
      [] search_type = "videos" -> "google_videos"

\* C26: the request of a SerpAPI search carries the engine of its search_type
\* (google, google_news, google_images, google_videos), always one, and `safe`
\* is the string "active" when safe is true and is not sent when safe is false.
C26_SerpAPIRequestBuilding ==
    (last.op = "search" /\ adapters[last.self].cls = "AsyncSerpAPIClient") =>
        /\ Len(requests) = 1
        /\ LET p == requests[1].params
           IN  /\ "engine" \in DOMAIN p
               /\ p.engine = EngineOf(last.args.search_type)
               /\ p.engine \in {"google", "google_news", "google_images", "google_videos"}
               /\ IF last.args.safe
                  THEN "safe" \in DOMAIN p /\ p.safe = "active"
                  ELSE "safe" \notin DOMAIN p
               /\ p.q = last.args.query

\* a videos search with safe = false went out with engine google_videos and
\* no safe parameter
C26_Witness ==
    /\ last.op = "search"
    /\ adapters[last.self].cls = "AsyncSerpAPIClient"
    /\ last.args.search_type = "videos"
    /\ ~last.args.safe
    /\ Len(requests) = 1
    /\ requests[1].params.engine = "google_videos"
    /\ "safe" \notin DOMAIN requests[1].params

----------------------------------------------------------------------------
(* Properties relating is_configured() and get_provider() *)

\* C27: when is_configured() is true of the record and the environment, a
\* get_provider() in that environment constructs the adapter without a
\* missing-credentials error.  get_provider() changes neither the record nor
\* the environment, so is_configured(cfg, env) after the call is what
\* is_configured() returned before it.
C27_ConfiguredImpliesConstructible ==
    (last.op = "get_provider" /\ is_configured(cfg, env)) =>
        last.outcome \notin MissingCredentialsErrors

\* what the code guarantees: a record or a variable holding a non-empty
\* credential for each credential the provider requires
NonEmptyCredentialsConstruct ==
    (last.op = "get_provider"
     /\ \A f \in DOMAIN cfg \cap SecretFields : Truthy(cfg[f])) =>
        last.outcome = "ok"

----------------------------------------------------------------------------
(* One Kagi search with extra keyword arguments *)

\* the **kwargs of a search: none, provider options, and names of the
\* parameters the adapter sets itself
KagiKwargs ==
    {EmptyDict, [safe |-> "on"], [q |-> "other"], [limit |-> 99], [engine |-> "web"],
     [region |-> "xx"]}

\* one search call on the adapter, for every kwargs, country and language
NextKagiParams ==
    \/ /\ requests = <<>>
       /\ \E k \in MaxResultsVals, country \in {None, "US"}, language \in {None, "EN"},
             kwargs \in KagiKwargs, response \in ClientKagiResponses :
             KagiWebSearch(1, "q", k, country, language, kwargs, response)
    \/ /\ requests = <<>>
       /\ \E k \in MaxResultsVals, country \in {None, "US"}, language \in {None, "EN"},
             kwargs \in KagiKwargs, response \in ClientKagiResponses :
             KagiNewsSearch(1, "q", k, country, language, kwargs, response)

\* a Kagi adapter answering one search call that carries extra keyword
\* arguments
SpecKagiParams == InitKagi /\ [][NextKagiParams]_vars

\* a Kagi search has completed and its request is in the log
KagiRequested ==
    /\ last.op \in {"web_search", "news_search"}
    /\ Len(requests) = 1

\* C28: whatever the extra keyword arguments, the request has q = query and
\* limit = max_results, news_search has engine = "news", and a given country
\* or language is sent as region = lowercase(country) and language.
C28_KwargsCannotOverride ==
    KagiRequested =>
        LET p == requests[1].params
        IN  /\ p.q = last.args.query
            /\ p.limit = last.args.max_results
            /\ last.op = "news_search" => p.engine = "news"
            /\ Truthy(last.args.country) => p.region = Lower(last.args.country)
            /\ Truthy(last.args.language) => p.language = last.args.language

\* what the code guarantees: the parameters set after the dict is built, and
\* the others when the extra keyword arguments do not name them
KwargsOverrideOnlyDictEntries ==
    KagiRequested =>
        LET p == requests[1].params
            kw == last.args.kwargs
        IN  /\ "q" \notin DOMAIN kw => p.q = last.args.query
            /\ "q" \in DOMAIN kw => p.q = kw.q
            /\ "limit" \notin DOMAIN kw => p.limit = last.args.max_results
            /\ (last.op = "news_search" /\ "engine" \notin DOMAIN kw) => p.engine = "news"
            /\ Truthy(last.args.country) => p.region = Lower(last.args.country)
            /\ Truthy(last.args.language) => p.language = last.args.language

----------------------------------------------------------------------------
(* get_max_items_from_list applied to one list under several budgets *)

\* the items of a list: {url, content} dicts of one, two and three tokens
ContextItems ==
    {[url |-> "u1", content |-> "c1"], [url |-> "u2", content |-> "c2"],
     [url |-> "u3", content |-> "c3"]}

\* get_max_items_from_list(data, max_tokens) on the list drawn at the start;
\* the application and its result join the applications made so far
ApplyMaxItems(max_tokens) ==
    /\ last.op = "input"
    /\ Len(calls) < MaxCalls
    /\ calls' = Append(calls,
                       [op |-> "get_max_items_from_list",
                        args |-> [data |-> last.args.data, max_tokens |-> max_tokens],
                        ret |-> get_max_items_from_list(last.args.data, max_tokens)])
    /\ UNCHANGED <<cfg, env, adapters, resolved, requests, last>>

InitMaxItems ==
    /\ cfg = NoConfig
    /\ env = EnvUnset
    /\ adapters = <<>>
    /\ resolved = <<>>
    /\ requests = <<>>
    /\ \E data \in SeqUpTo(ContextItems, MaxItems) :
          last = Call("input", 0, [data |-> data], "none", None)
    /\ calls = <<>>

NextMaxItems == \E max_tokens \in MaxTokensVals : ApplyMaxItems(max_tokens)

\* one list, and get_max_items_from_list applied to it under up to MaxCalls
\* budgets
SpecMaxItems == InitMaxItems /\ [][NextMaxItems]_vars

\* s is a prefix of t
IsPrefix(s, t) == Len(s) <= Len(t) /\ \A i \in DOMAIN s : s[i] = t[i]

\* C29: for budgets N1 <= N2 the list returned for N1 is a prefix of the list
\* returned for N2; a budget of at least the tokens of the whole list returns
\* the whole list, and a budget below the tokens of the first item returns the
\* empty list (the counter charges no item less than 0).
C29_MonotoneInBudget ==
    /\ \A c \in DOMAIN calls, d \in DOMAIN calls :
          calls[c].args.max_tokens <= calls[d].args.max_tokens =>
             IsPrefix(calls[c].ret, calls[d].ret)
    /\ \A c \in DOMAIN calls :
          LET data == calls[c].args.data
              N == calls[c].args.max_tokens
          IN  /\ N >= SumTokens(data) => calls[c].ret = data
              /\ (data # <<>> /\ N < SumTokens(<<data[1]>>)) => calls[c].ret = <<>>

\* a list of two items was cut to its first item under one budget and
\* returned whole under a larger one that equals its tokens
C29_Witness ==
    /\ Len(calls) = 2
    /\ Len(calls[1].args.data) = 2
    /\ calls[1].args.max_tokens < calls[2].args.max_tokens
    /\ Len(calls[1].ret) = 1
    /\ calls[2].ret = calls[2].args.data
    /\ calls[2].args.max_tokens = SumTokens(calls[2].args.data)

====
